---- MODULE Spec2Model ----
(***************************************************************************)
(* A model of the resilient MCP client and of the stdio<->HTTP bridge:     *)
(*   - CircuitBreaker            (examples/slack-bot/bot.py)               *)
(*   - EnhancedMCPClient         (examples/slack-bot/src/clients/          *)
(*                                enhanced_mcp_client.py)                  *)
(*   - ImprovedMalloyMCPBridge   (packages/server/dxt/malloy_bridge.py)    *)
(* Each component has its own specification (SpecBreaker, SpecRetry,       *)
(* SpecBridge, SpecDecode; SpecHandler for process_slack_events over the   *)
(* breaker); the variables of the other components stay at their initial   *)
(* values in it.                                                           *)
(***************************************************************************)
EXTENDS Integers, Sequences, FiniteSets, TLC

VARIABLES
  \* ---- CircuitBreaker (bot.py) ----
  failure_threshold,   \* CircuitBreaker.failure_threshold
  timeout,             \* CircuitBreaker.timeout
  failure_count,       \* CircuitBreaker.failure_count
  last_failure_time,   \* CircuitBreaker.last_failure_time (NoTime = None)
  state,               \* CircuitBreaker.state
  now,                 \* the value time.time() returns
  op,                  \* history: the last breaker method called
  ret,                 \* history: what that call returned
  prev,                \* history: CircuitBreaker.state before that call
  streak,              \* history: record_failure calls since the last record_success
  \* ---- response decoding (malloy_bridge.py, enhanced_mcp_client.py) ----
  d_env,               \* the JSON-RPC envelope the server sends
  d_frame,             \* how the SSE body frames it
  d_rid,               \* the id of the request being answered
  d_bridge_plain,      \* send_request's value for the plain JSON body
  d_bridge_sse,        \* send_request's value for the SSE body
  d_client_plain,      \* _parse_response's outcome for the plain JSON body
  d_client_sse,        \* _parse_response's outcome for the SSE body
  \* ---- EnhancedMCPClient (enhanced_mcp_client.py) ----
  max_retries,         \* MCPConfig.max_retries
  base_delay,          \* MCPConfig.base_delay, in ticks
  max_delay,           \* MCPConfig.max_delay, in ticks
  delays,              \* history: the delay of each asyncio.sleep, in ticks
  session,             \* EnhancedMCPClient.session: "None" or "open"
  request_id,          \* EnhancedMCPClient._request_id
  c_pc,                \* where _make_request_with_retry and its caller stand
  c_stream,            \* the stream argument
  script,              \* what the transport does on the 1st, 2nd, ... POST
  attempt,             \* the loop variable of _make_request_with_retry
  attempts,            \* history: calls of _make_request / _stream_request
  sleeps,              \* history: asyncio.sleep calls
  last_exception,      \* last_exception
  c_result,            \* what the call returned or raised
  attempt_exc,         \* history: the exception each request body raised
  \* ---- EnhancedMCPClient, the public calls (enhanced_mcp_client.py) ----
  available_tools,     \* EnhancedMCPClient.available_tools, the names it maps
  cat_pc,              \* "new", "entered" (inside `async with`), "exited"
  cat_op,              \* history: the public method last called
  cat_in,              \* history: its arguments and what the transport did
  cat_result,          \* history: what it returned or raised
  cat_posts,           \* history: session.post calls it made
  cat_sent,            \* history: the arguments of the tools/call it sent
  cat_msg,             \* history: what the message of its own MCPError names
  calls,               \* history: _create_session / discover_tools / close calls
  \* ---- CONVERSATION_CACHE (bot.py) ----
  CONVERSATION_CACHE,  \* the keys of the cache: conversation ids, which are timestamps
  handled,             \* history: events handled
  conv_path,           \* history: the path the last event took
  conv_id,             \* history: the conversation id of the last event
  \* ---- requests of concurrent calls on one event loop (enhanced_mcp_client.py) ----
  ids,                 \* history: the id of each payload built, with the task that built it
  k_pc,                \* per task: "idle", "posted", "sleeping", "done"
  k_attempt,           \* per task: attempt of the retry loop
  k_stream,            \* per task: the call is a streaming call being iterated
  \* ---- record_failure run by concurrent listener threads (bot.py) ----
  t_pc,                \* per thread: position inside record_failure
  t_count,             \* per thread: self.failure_count as loaded by `+= 1`
  \* ---- create_health_app (bot.py) ----
  served,              \* history: the circuit breaker as the last /ready or /metrics reported it
  \* ---- parse_sse_response, the read loop (malloy_bridge.py) ----
  r_left,              \* bytes of the response body not yet read
  response_text,       \* bytes accumulated in response_text
  bytes_read,          \* bytes_read
  r_pc,                \* "reading", "parsing", "returned"
  r_truncated,         \* history: the loop was left at the size test
  r_parsed,            \* history: bytes of text handed to the parsing, -1 = none
  r_result,            \* history: "parsed", or "sse_parsing_error" from the outer except
  \* ---- ImprovedMalloyMCPBridge (malloy_bridge.py) ----
  b_pc,                \* "start" = before run(), "read" = at `for line in sys.stdin`,
                       \* "forward" = in urlopen for the current line, "error_body" =
                       \* in e.read() of the HTTPError handler, "exited" = process ended
  exit_code,           \* the process's exit status, -1 while it runs
  exit_reason,         \* history: why it ended
  sig_at,              \* history: nread when the first signal arrived, -1 before
  nread,               \* history: stdin lines read so far
  inLog,               \* history: what kind of line each of them was
  out,                 \* stdout: for each line written, the stdin line it answers
  line,                \* the stdin line being handled (the last one read)
  fwd,                 \* the request handed to send_request for it
  http_calls,          \* history: urlopen calls made for it
  reply,               \* what urlopen met for it
  written,             \* the response lines written for it
  \* ---- process_slack_events (bot.py), one entry per listener thread ----
  h_pc,                \* where the thread stands in process_slack_events
  h_adm,               \* history: how is_open() answered for its event
  h_agent,             \* history: calls of process_user_question for its event
  h_rec,               \* history: record_success / record_failure calls for its event
  h_msg,               \* history: what the thread sent the user for its event
  events               \* history: events taken up so far

breakerVars == <<failure_threshold, timeout, failure_count, last_failure_time,
                 state, now, op, ret, prev, streak>>

decodeVars == <<d_env, d_frame, d_rid, d_bridge_plain, d_bridge_sse,
                d_client_plain, d_client_sse>>

clientVars == <<max_retries, base_delay, max_delay, delays, session, request_id, c_pc, c_stream, script, attempt,
                attempts, sleeps, last_exception, c_result, attempt_exc>>

bridgeVars == <<b_pc, exit_code, exit_reason, sig_at, nread, inLog, out, line, fwd,
                http_calls, reply, written>>

catalogVars == <<available_tools, cat_pc, cat_op, cat_in, cat_result, cat_posts,
                 cat_sent, cat_msg, calls>>

raceVars == <<t_pc, t_count>>

idVars == <<ids, k_pc, k_attempt, k_stream>>

cacheVars == <<CONVERSATION_CACHE, handled, conv_path, conv_id>>

readVars == <<r_left, response_text, bytes_read, r_pc, r_truncated, r_parsed, r_result>>

handlerVars == <<h_pc, h_adm, h_agent, h_rec, h_msg, events, served>>

vars == <<breakerVars, decodeVars, clientVars, bridgeVars, handlerVars, catalogVars,
          readVars, raceVars, idVars, cacheVars>>

\* ------------------------------------------------------------------ bounds
MaxThreshold == 3
MaxTimeout == 2
MaxNow == 4
MaxFailures == 4
MaxRetries == 2
MaxLines == 3
MaxEvents == 3
TicksPerSecond == 2
MaxBaseDelay == 2
MaxMaxDelay == 5
MaxCalls == 1

\* -------------------------------------------------------- response bodies
\* A JSON document: shape "object" (a JSON object), "array" (valid JSON that is
\* no object), "garbage" (text json.loads rejects), "none" (no JSON text).  An
\* object carries the keys of a JSON-RPC envelope: id ("absent" = no such key,
\* "null" = JSON null), kind = which of "result" / "error" it holds, val = that
\* member's value, code = error.code.
NoDoc ==
  [shape |-> "none", id |-> "absent", kind |-> "neither", val |-> "none", code |-> 0]

Garbage ==
  [shape |-> "garbage", id |-> "absent", kind |-> "neither", val |-> "none", code |-> 0]

ArrayDoc ==
  [shape |-> "array", id |-> "absent", kind |-> "neither", val |-> "none", code |-> 0]

ResultDoc(i, v) ==
  [shape |-> "object", id |-> i, kind |-> "result", val |-> v, code |-> 0]

\* val "error_object": error is an object; "error_string": error is a string
ErrorDoc(i, v, c) ==
  [shape |-> "object", id |-> i, kind |-> "error", val |-> v, code |-> c]

\* A body is a sequence of lines [tag, doc]: tag "json" = a line of JSON text,
\* "data" = the SSE line "data: <doc>", "event" = the SSE line "event: message",
\* "id" = an SSE line "id: <n>".
JsonLine(doc) == [tag |-> "json", doc |-> doc]

DataLine(doc) == [tag |-> "data", doc |-> doc]

EventLine == [tag |-> "event", doc |-> NoDoc]

IdLine == [tag |-> "id", doc |-> NoDoc]

\* Response encoding A: the body is the envelope
PlainBody(doc) == <<JsonLine(doc)>>

SseFrames == {"event_data", "event_id_data", "id_event_data", "data_only"}

\* Response encoding B: the envelope on the body's "data: " line
SseBody(frame, doc) ==
  CASE frame = "event_data"    -> <<EventLine, DataLine(doc)>>
    [] frame = "event_id_data" -> <<EventLine, IdLine, DataLine(doc)>>
    [] frame = "id_event_data" -> <<IdLine, EventLine, DataLine(doc)>>
    [] frame = "data_only"     -> <<DataLine(doc)>>

\* json.loads(text) of a whole body: only one line of JSON text decodes
json_loads_text(body) ==
  IF Len(body) = 1 /\ body[1].tag = "json" /\ body[1].doc.shape \in {"object", "array"}
    THEN [ok |-> TRUE, doc |-> body[1].doc]
    ELSE [ok |-> FALSE, doc |-> NoDoc]

\* json.loads(line[6:]) of a line that starts with "data: "
json_loads_data(ln) ==
  IF ln.doc.shape \in {"object", "array"}
    THEN [ok |-> TRUE, doc |-> ln.doc]
    ELSE [ok |-> FALSE, doc |-> NoDoc]

\* the first line with line.startswith('data: '), 0 when there is none
FirstDataLine(body) ==
  LET idx == {i \in 1..Len(body) : body[i].tag = "data"}
  IN IF idx = {} THEN 0 ELSE CHOOSE i \in idx : \A j \in idx : i <= j

\* ----------------------------------------- ImprovedMalloyMCPBridge decoding
\* the error responses the bridge builds itself
BridgeError(c, msg, rid) ==
  [id |-> rid, kind |-> "error", val |-> "bridge_error", code |-> c, message |-> msg]

\* if 'id' not in parsed or parsed['id'] is None: parsed['id'] = request_id
BackfillId(doc, rid) ==
  IF doc.id \in {"absent", "null"} THEN rid ELSE doc.id

\* a plausible slip: whatever the server sent is handed on as a result
Envelope_as_result(doc, rid) ==
  [id |-> BackfillId(doc, rid), kind |-> "result", val |-> doc.val,
   code |-> 0, message |-> "server"]

\* the decoded envelope, as the bridge hands it on
Envelope(doc, rid) ==
  [id |-> BackfillId(doc, rid), kind |-> doc.kind, val |-> doc.val,
   code |-> doc.code, message |-> "server"]

\* parse_sse_response; a document that is no object makes the id backfill raise
\* TypeError, which the outer handler turns into "SSE parsing error"
parse_sse_response(body, rid) ==
  LET i == FirstDataLine(body)
      r == IF i # 0 THEN json_loads_data(body[i]) ELSE json_loads_text(body)
  IN IF i = 0 /\ Len(body) = 0
       THEN BridgeError(-32603, "No data found in response", rid)
       ELSE IF ~r.ok
              THEN BridgeError(-32603, "Failed to parse response", rid)
              ELSE IF r.doc.shape = "object"
                     THEN Envelope(r.doc, rid)
                     ELSE BridgeError(-32603, "SSE parsing error", rid)

\* send_request, the body of `with urlopen(...) as response`
decode_response(content_type, body, rid) ==
  IF content_type = "text/event-stream"
    THEN parse_sse_response(body, rid)
    ELSE LET r == json_loads_text(body)
         IN IF ~r.ok
              THEN BridgeError(-32603, "Invalid JSON response", rid)
              ELSE IF r.doc.shape = "object"
                     THEN Envelope(r.doc, rid)
                     ELSE BridgeError(-32603, "Unexpected error", rid)

\* ------------------------------------------------ EnhancedMCPClient decoding
Return(v) == [kind |-> "return", val |-> v, exc |-> "none"]

Raise(e) == [kind |-> "raise", val |-> "none", exc |-> e]

\* the handling of a decoded document in _parse_response: the error check and
\* result.get("result", {})
ResultOf(doc) ==
  IF doc.shape # "object"
    THEN Raise("AttributeError")
    ELSE IF doc.kind = "error"
           THEN IF doc.val = "error_object"
                  THEN Raise("MCPError")
                  ELSE Raise("AttributeError")
           ELSE IF doc.kind = "result" THEN Return(doc.val) ELSE Return("{}")

\* _parse_response
parse_response(body) ==
  IF Len(body) > 0 /\ body[1].tag = "event"
    THEN LET i == FirstDataLine(body)
         IN IF i = 0
              THEN Return("None")
              ELSE LET r == json_loads_data(body[i])
                   IN IF r.ok THEN ResultOf(r.doc) ELSE Raise("MCPError")
    ELSE LET r == json_loads_text(body)
         IN IF r.ok THEN ResultOf(r.doc) ELSE Raise("MCPError")

\* ---------------------------------------------- decoding, both encodings
ServerIds == {"absent", "null", "1", "7", "99"}

RequestIds == {"1", "7"}

EnvelopeDocs ==
  {ResultDoc(i, v) : i \in ServerIds, v \in {"tools_empty", "rows"}}
    \cup {ErrorDoc(i, "error_object", -32601) : i \in ServerIds}

PendingResponse ==
  [id |-> "absent", kind |-> "pending", val |-> "none", code |-> 0, message |-> "none"]

PendingOutcome == [kind |-> "pending", val |-> "none", exc |-> "none"]

InitDecode ==
  /\ d_env \in EnvelopeDocs
  /\ d_frame \in SseFrames
  /\ d_rid \in RequestIds
  /\ d_bridge_plain = PendingResponse
  /\ d_bridge_sse = PendingResponse
  /\ d_client_plain = PendingOutcome
  /\ d_client_sse = PendingOutcome

IdleDecode ==
  /\ d_env = NoDoc
  /\ d_frame = "event_data"
  /\ d_rid = "1"
  /\ d_bridge_plain = PendingResponse
  /\ d_bridge_sse = PendingResponse
  /\ d_client_plain = PendingOutcome
  /\ d_client_sse = PendingOutcome

BridgeDecodePlain ==
  /\ d_bridge_plain = PendingResponse
  /\ d_bridge_plain' = decode_response("application/json", PlainBody(d_env), d_rid)
  /\ UNCHANGED <<d_env, d_frame, d_rid, d_bridge_sse, d_client_plain, d_client_sse>>

BridgeDecodeSse ==
  /\ d_bridge_sse = PendingResponse
  /\ d_bridge_sse' = decode_response("text/event-stream", SseBody(d_frame, d_env), d_rid)
  /\ UNCHANGED <<d_env, d_frame, d_rid, d_bridge_plain, d_client_plain, d_client_sse>>

ClientDecodePlain ==
  /\ d_client_plain = PendingOutcome
  /\ d_client_plain' = parse_response(PlainBody(d_env))
  /\ UNCHANGED <<d_env, d_frame, d_rid, d_bridge_plain, d_bridge_sse, d_client_sse>>

ClientDecodeSse ==
  /\ d_client_sse = PendingOutcome
  /\ d_client_sse' = parse_response(SseBody(d_frame, d_env))
  /\ UNCHANGED <<d_env, d_frame, d_rid, d_bridge_plain, d_bridge_sse, d_client_plain>>

\* ------------------------------------------------------- EnhancedMCPClient
\* What the transport does with one POST: an HTTP response (status 200 with an
\* envelope holding a result, with an envelope holding an error, with a body
\* that is no JSON; or an error status), aiohttp.ClientError, or
\* asyncio.TimeoutError.
Outcomes ==
  {"ok", "rpc_error", "bad_json", "http_401", "http_403", "http_500",
   "client_error", "timeout"}

\* response.status; 0 when no response arrives
Status(o) ==
  CASE o = "http_401" -> 401
    [] o = "http_403" -> 403
    [] o = "http_500" -> 500
    [] o \in {"client_error", "timeout"} -> 0
    [] OTHER -> 200

\* What the server can send besides: a tools/list result (a dict with the tools
\* list, one whose tools have no name, a result that is no dict), an envelope
\* that is a JSON array, an envelope whose error member is a string.
CatalogOutcomes ==
  Outcomes \cup {"ok_tools", "ok_tools_noname", "ok_not_dict", "array_json",
                 "rpc_error_string"}

\* await response.text()
BodyOf(o) ==
  CASE o = "ok" -> PlainBody(ResultDoc("1", "rows"))
    [] o = "ok_tools" -> PlainBody(ResultDoc("1", "tools_two"))
    [] o = "ok_tools_noname" -> PlainBody(ResultDoc("1", "tools_noname"))
    [] o = "ok_not_dict" -> PlainBody(ResultDoc("1", "list"))
    [] o = "array_json" -> PlainBody(ArrayDoc)
    [] o = "rpc_error" -> PlainBody(ErrorDoc("1", "error_object", -32601))
    [] o = "rpc_error_string" -> PlainBody(ErrorDoc("1", "error_string", 0))
    [] OTHER -> PlainBody(Garbage)

\* a plausible slip: the missing session reported as a transport failure
session_check_as_transport(sess) == IF sess = "None" THEN "aiohttp.ClientError" ELSE "ok"

\* `if not self.session: raise MCPConnectionError(...)`
session_check(sess) == IF sess = "None" THEN "MCPConnectionError" ELSE "ok"

\* _make_request, one attempt, with self.session = sess
make_request_on(sess, o) ==
  IF session_check(sess) # "ok"
    THEN Raise(session_check(sess))
    ELSE IF o = "client_error"
           THEN Raise("MCPConnectionError")
           ELSE IF o = "timeout"
                  THEN Raise("asyncio.TimeoutError")
                  ELSE IF Status(o) = 401
                         THEN Raise("MCPAuthError")
                         ELSE IF Status(o) = 403
                                THEN Raise("MCPAuthError")
                                ELSE IF Status(o) >= 400
                                       THEN Raise("MCPConnectionError")
                                       ELSE parse_response(BodyOf(o))

\* _make_request, one attempt
make_request(o) == make_request_on(session, o)

\* _stream_request, the generator's body as it runs when the caller iterates;
\* a body without "data: " lines yields nothing
stream_request(o) ==
  IF session = "None"
    THEN Raise("MCPConnectionError")
    ELSE IF o = "client_error"
           THEN Raise("MCPConnectionError")
           ELSE IF o = "timeout"
                  THEN Raise("asyncio.TimeoutError")
                  ELSE IF Status(o) = 401
                         THEN Raise("MCPAuthError")
                         ELSE IF Status(o) >= 400
                                THEN Raise("MCPConnectionError")
                                ELSE Return("stream_end")

\* a plausible slip: the retry loop catches every exception
IsRetryable_any(exc) == TRUE

\* except (aiohttp.ClientError, asyncio.TimeoutError)
IsRetryable(exc) == exc \in {"aiohttp.ClientError", "asyncio.TimeoutError"}

\* a plausible slip: the exhausted call raises the base class
Convert_base_class(exc) == "MCPError"

\* "Convert to appropriate exception type", after the loop
Convert(exc) ==
  IF exc = "asyncio.TimeoutError"
    THEN "MCPTimeoutError"
    ELSE IF exc = "aiohttp.ClientError" THEN "MCPConnectionError" ELSE "MCPError"

Min(a, b) == IF a <= b THEN a ELSE b

RECURSIVE Pow2(_)
\* 2 ** n
Pow2(n) == IF n = 0 THEN 1 ELSE 2 * Pow2(n - 1)

\* random.uniform(0, 1): a time between 0 and 1 second, in ticks
Jitters == 0..TicksPerSecond

\* a plausible slip: the attempts counted from 1
backoff_delay_from_one(att, jitter) ==
  Min(base_delay * Pow2(att + 1) + jitter, max_delay)

\* a plausible slip: the jitter taken off the delay
backoff_delay_minus_jitter(att, jitter) ==
  Min(base_delay * Pow2(att) - jitter, max_delay)

\* delay = min(base_delay * (2 ** attempt) + random.uniform(0, 1), max_delay)
backoff_delay(att, jitter) ==
  Min(base_delay * Pow2(att) + jitter, max_delay)

\* EnhancedMCPClient.__init__ with its MCPConfig; session is "open" once
\* _create_session has run
InitClient ==
  /\ max_retries \in 0..MaxRetries
  /\ base_delay \in 1..MaxBaseDelay
  /\ max_delay \in 1..MaxMaxDelay
  /\ delays = <<>>
  /\ session \in {"None", "open"}
  /\ request_id = 0
  /\ c_pc = "idle"
  /\ c_stream = FALSE
  /\ script = <<>>
  /\ attempt = 0
  /\ attempts = 0
  /\ sleeps = 0
  /\ last_exception = "None"
  /\ c_result = PendingOutcome
  /\ attempt_exc = <<>>

IdleClient ==
  /\ max_retries = 0
  /\ base_delay = 1
  /\ max_delay = 1
  /\ delays = <<>>
  /\ session = "None"
  /\ request_id = 0
  /\ c_pc = "idle"
  /\ c_stream = FALSE
  /\ script = <<>>
  /\ attempt = 0
  /\ attempts = 0
  /\ sleeps = 0
  /\ last_exception = "None"
  /\ c_result = PendingOutcome
  /\ attempt_exc = <<>>

\* _make_request_with_retry is called; the transport's behaviour on the POSTs
\* to come is fixed here
Call ==
  /\ c_pc = "idle"
  /\ c_pc' = "attempt"
  /\ c_stream' \in BOOLEAN
  /\ script' \in [1..(max_retries + 1) -> Outcomes]
  /\ last_exception' = "None"
  /\ attempt' = 0
  /\ UNCHANGED <<max_retries, base_delay, max_delay, delays, session, request_id,
                 attempts, sleeps, c_result, attempt_exc>>

\* one pass of the for loop: the try block and the except clause
Attempt ==
  /\ c_pc = "attempt"
  /\ attempts' = attempts + 1
  /\ IF c_stream
       THEN /\ c_result' = Return("generator")
            /\ c_pc' = "returned"
            /\ UNCHANGED <<request_id, last_exception, attempt_exc>>
       ELSE LET r == make_request(script[attempt + 1])
            IN /\ request_id' = IF session = "None" THEN request_id ELSE request_id + 1
               /\ attempt_exc' = Append(attempt_exc, r.exc)
               /\ IF r.kind = "return"
                    THEN /\ c_result' = r
                         /\ c_pc' = "returned"
                         /\ UNCHANGED last_exception
                    ELSE IF IsRetryable(r.exc)
                           THEN /\ last_exception' = r.exc
                                /\ IF attempt < max_retries
                                     THEN /\ c_pc' = "sleep"
                                          /\ UNCHANGED c_result
                                     ELSE /\ c_pc' = "raised"
                                          /\ c_result' = Raise(Convert(r.exc))
                           ELSE /\ c_result' = r
                                /\ c_pc' = "raised"
                                /\ UNCHANGED last_exception
  /\ UNCHANGED <<max_retries, base_delay, max_delay, delays, session, c_stream,
                 script, attempt, sleeps>>

\* await asyncio.sleep(delay), then the next pass
Sleep ==
  /\ c_pc = "sleep"
  /\ \E jitter \in Jitters : delays' = Append(delays, backoff_delay(attempt, jitter))
  /\ sleeps' = sleeps + 1
  /\ attempt' = attempt + 1
  /\ c_pc' = "attempt"
  /\ UNCHANGED <<max_retries, base_delay, max_delay, session, request_id, c_stream,
                 script, attempts, last_exception, c_result, attempt_exc>>

\* the caller iterates the generator _stream_request returned
Iterate ==
  /\ c_pc = "returned"
  /\ c_result = Return("generator")
  /\ LET r == stream_request(script[1])
     IN /\ c_result' = r
        /\ attempt_exc' = Append(attempt_exc, r.exc)
        /\ c_pc' = IF r.kind = "raise" THEN "stream_raised" ELSE "stream_done"
  /\ request_id' = IF session = "None" THEN request_id ELSE request_id + 1
  /\ UNCHANGED <<max_retries, base_delay, max_delay, delays, session, c_stream,
                 script, attempt, attempts, sleeps, last_exception>>

\* ------------------------------------------------------ CONVERSATION_CACHE
\* MAX_CONVERSATIONS = 100
MAX_CONVERSATIONS == 100

\* an empty cache, no event handled
IdleCache ==
  /\ CONVERSATION_CACHE = {}
  /\ handled = 0
  /\ conv_path = "none"
  /\ conv_id = 0

\* a cache filled by earlier successful events, up to two entries below the
\* limit; the conversation ids are the (numeric) timestamps 1, 2, 3, ...
InitCache ==
  /\ CONVERSATION_CACHE \in {1..n : n \in (MAX_CONVERSATIONS - 2)..MAX_CONVERSATIONS}
  /\ handled = 0
  /\ conv_path = "none"
  /\ conv_id = 0

\* conversations_by_time.sort(); ...pop(0): the entry with the smallest timestamp
Oldest(cache) == CHOOSE c \in cache : \A d \in cache : c <= d

RECURSIVE cleanup_old_conversations(_)
\* cleanup_old_conversations: nothing at or below the limit, else the oldest
\* entries are removed until the limit is met
cleanup_old_conversations(cache) ==
  IF Cardinality(cache) <= MAX_CONVERSATIONS
    THEN cache
    ELSE cleanup_old_conversations(cache \ {Oldest(cache)})

\* The conversation id of an event: the thread_ts of a thread that is in the
\* cache or of one that is not (0: older than every entry), or the message_ts
\* of a new question, later than every entry.
ConversationIds(cache) ==
  {0, 1} \cup {Cardinality(cache) + handled + 1}

\* the paths of process_slack_events past the breaker check: the agent
\* succeeded and the answer was posted, with or without a final history; the
\* agent reported failure, with or without a final history; an exception
EventPaths ==
  {"success_history", "success_no_history", "failure_history", "failure_no_history",
   "exception"}

\* process_slack_events, its effect on the cache
HandleEvent ==
  /\ handled < MaxEvents
  /\ handled' = handled + 1
  /\ \E id \in ConversationIds(CONVERSATION_CACHE), path \in EventPaths :
       /\ conv_id' = id
       /\ conv_path' = path
       /\ CONVERSATION_CACHE' =
            CASE path = "success_history" ->
                   cleanup_old_conversations(CONVERSATION_CACHE \cup {id})
              [] path = "failure_history" -> CONVERSATION_CACHE \cup {id}
              [] OTHER -> CONVERSATION_CACHE

\* ------------------------------- request ids, concurrent calls on one loop
\* the coroutines that call the client at the same time
Tasks == {"a", "b"}

\* no call running
InitIds ==
  /\ ids = <<>>
  /\ k_pc = [t \in Tasks |-> "idle"]
  /\ k_attempt = [t \in Tasks |-> 0]
  /\ k_stream = [t \in Tasks |-> FALSE]

\* the calls about to run: plain or streaming
TasksAtStart ==
  /\ ids = <<>>
  /\ k_pc = [t \in Tasks |-> "idle"]
  /\ k_attempt = [t \in Tasks |-> 0]
  /\ k_stream \in [Tasks -> BOOLEAN]

\* a plausible slip: the counter advanced for the first request only
next_request_id_once(cur) == IF cur = 0 THEN 1 ELSE cur

\* _next_request_id: self._request_id += 1; return self._request_id
next_request_id(cur) == cur + 1

\* _make_request / _stream_request up to the first await: the payload is built
\* with the next id and posted.  No await separates the increment from the
\* read, so no other coroutine of the loop runs in between.
Post(t) ==
  /\ k_pc[t] \in {"idle", "sleeping"}
  /\ session # "None"
  /\ request_id' = next_request_id(request_id)
  /\ ids' = Append(ids, [id |-> next_request_id(request_id), task |-> t])
  /\ k_pc' = [k_pc EXCEPT ![t] = "posted"]
  /\ k_attempt' = [k_attempt EXCEPT ![t] = IF k_pc[t] = "sleeping" THEN @ + 1 ELSE @]
  /\ UNCHANGED <<k_stream, max_retries, base_delay, max_delay, delays, session, c_pc,
                 c_stream, script, attempt, attempts, sleeps, last_exception, c_result,
                 attempt_exc>>

\* the awaited POST completes: the call returns or raises, or the retry loop
\* goes to sleep before its next attempt; a streaming call is never retried
Respond(t) ==
  /\ k_pc[t] = "posted"
  /\ \E o \in Outcomes :
       LET r == make_request_on(session, o)
       IN k_pc' = [k_pc EXCEPT ![t] =
                    IF /\ ~k_stream[t]
                       /\ r.kind = "raise"
                       /\ IsRetryable(r.exc)
                       /\ k_attempt[t] < max_retries
                      THEN "sleeping"
                      ELSE "done"]
  /\ UNCHANGED <<ids, k_attempt, k_stream, clientVars>>

\* ---------------------------------------- EnhancedMCPClient, public calls
\* the tools the server lists
ServerTools == {"malloy_projectList", "malloy_executeQuery"}

\* the names call_tool is called with
ToolNames == ServerTools \cup {"nonexistent_tool"}

\* The arguments of a call to a tool whose inputSchema has one required string
\* field (project_name) and one optional integer field (limit, default 0);
\* "absent" = the key is left out.
ToolArguments == [project_name : {"home", "absent"}, limit : {"absent", "0", "10"}]

\* no arguments sent
NoArguments == [project_name |-> "none", limit |-> "none"]

\* The transport's behaviour over one call: timeouts on the first k POSTs, then
\* o on every later one (what follows the first POST that is not retried is
\* never consumed).
ScriptOf(k, o) == [i \in 1..(max_retries + 1) |-> IF i <= k THEN "timeout" ELSE o]

RECURSIVE retry_from(_, _, _)
\* _make_request_with_retry(stream=False) from pass att of the loop on, with
\* self.session = sess: its outcome and the POSTs made
retry_from(sess, scr, att) ==
  LET r == make_request_on(sess, scr[att + 1])
      posted == IF sess = "None" THEN 0 ELSE 1
  IN IF r.kind = "return"
       THEN [res |-> r, posts |-> posted]
       ELSE IF IsRetryable(r.exc)
              THEN IF att < max_retries
                     THEN LET rest == retry_from(sess, scr, att + 1)
                          IN [res |-> rest.res, posts |-> rest.posts + posted]
                     ELSE [res |-> Raise(Convert(r.exc)), posts |-> posted]
              ELSE [res |-> r, posts |-> posted]

\* _make_request_with_retry; with stream=True the generator is returned unrun
make_request_with_retry(sess, scr, stream) ==
  IF stream
    THEN [res |-> Return("generator"), posts |-> 0]
    ELSE retry_from(sess, scr, 0)

\* isinstance(result, dict) and "tools" in result
HasToolsList(val) == val \in {"tools_two", "tools_empty", "tools_noname"}

\* discover_tools with self.session = sess: the new available_tools, what is
\* returned, the POSTs made.  tool["name"] on a tool without a name raises
\* KeyError inside the try; `except Exception` logs, empties the map and
\* returns {}.
discover_tools(sess, scr) ==
  LET r == make_request_with_retry(sess, scr, FALSE)
  IN IF r.res.kind = "raise"
       THEN [tools |-> {}, res |-> Return("{}"), posts |-> r.posts]
       ELSE IF HasToolsList(r.res.val)
              THEN IF r.res.val = "tools_noname"
                     THEN [tools |-> {}, res |-> Return("{}"), posts |-> r.posts]
                     ELSE [tools |-> IF r.res.val = "tools_two" THEN ServerTools ELSE {},
                           res |-> Return("available_tools"), posts |-> r.posts]
              ELSE [tools |-> {}, res |-> Return("available_tools"), posts |-> r.posts]

\* no MCPError raised by call_tool itself
NoMessage == [tool |-> "none", available |-> {}]

\* f"Tool '{tool_name}' not available. Available tools: {available}"
NotAvailableMessage(name) == [tool |-> name, available |-> available_tools]

NoInput == [name |-> "none", args |-> NoArguments, stream |-> FALSE, script |-> <<>>]

\* EnhancedMCPClient.__init__
InitCatalog ==
  /\ available_tools = {}
  /\ cat_pc = "new"
  /\ cat_op = "init"
  /\ cat_in = NoInput
  /\ cat_result = PendingOutcome
  /\ cat_posts = 0
  /\ cat_sent = NoArguments
  /\ cat_msg = NoMessage
  /\ calls = <<>>

\* the client as constructed: no session yet
NewClient ==
  /\ max_retries \in 0..MaxRetries
  /\ base_delay = 1
  /\ max_delay = 1
  /\ delays = <<>>
  /\ session = "None"
  /\ request_id = 0
  /\ c_pc = "idle"
  /\ c_stream = FALSE
  /\ script = <<>>
  /\ attempt = 0
  /\ attempts = 0
  /\ sleeps = 0
  /\ last_exception = "None"
  /\ c_result = PendingOutcome
  /\ attempt_exc = <<>>

\* what the public calls leave alone
RetryLoopUnchanged ==
  UNCHANGED <<max_retries, base_delay, max_delay, delays, c_pc, c_stream, script,
              attempt, attempts, sleeps, last_exception, c_result, attempt_exc>>

\* a plausible slip: the session closed but the attribute left set
close_keeps_session(sess) == sess

\* close(): self.session after it
close(sess) == IF sess # "None" THEN "None" ELSE sess

\* the calls of discover_tools and call_tool made by the user of the client
UserCalls ==
  Len(calls) - (IF cat_pc = "new" THEN 0 ELSE 2) - (IF cat_pc = "exited" THEN 1 ELSE 0)

\* __aenter__: _create_session(), then discover_tools()
Enter ==
  /\ cat_pc = "new"
  /\ \E k \in 0..(max_retries + 1), o \in CatalogOutcomes :
       LET d == discover_tools("open", ScriptOf(k, o))
       IN /\ cat_in' = [NoInput EXCEPT !.script = ScriptOf(k, o)]
          /\ available_tools' = d.tools
          /\ cat_result' = Return("self")
          /\ cat_posts' = d.posts
          /\ request_id' = request_id + d.posts
  /\ session' = "open"
  /\ cat_pc' = "entered"
  /\ cat_op' = "__aenter__"
  /\ cat_sent' = NoArguments
  /\ cat_msg' = NoMessage
  /\ calls' = calls \o <<"_create_session", "discover_tools">>
  /\ RetryLoopUnchanged

\* __aexit__: close()
Exit ==
  /\ cat_pc = "entered"
  /\ session' = close(session)
  /\ cat_pc' = "exited"
  /\ cat_op' = "__aexit__"
  /\ cat_in' = NoInput
  /\ cat_result' = Return("None")
  /\ cat_posts' = 0
  /\ cat_sent' = NoArguments
  /\ cat_msg' = NoMessage
  /\ calls' = Append(calls, "close")
  /\ UNCHANGED <<available_tools, request_id>>
  /\ RetryLoopUnchanged

\* discover_tools(), called by the user of the client
DiscoverTools ==
  /\ UserCalls < MaxCalls
  /\ \E k \in 0..(max_retries + 1), o \in CatalogOutcomes :
       LET d == discover_tools(session, ScriptOf(k, o))
       IN /\ cat_in' = [NoInput EXCEPT !.script = ScriptOf(k, o)]
          /\ available_tools' = d.tools
          /\ cat_result' = d.res
          /\ cat_posts' = d.posts
          /\ request_id' = request_id + d.posts
  /\ cat_op' = "discover_tools"
  /\ cat_sent' = NoArguments
  /\ cat_msg' = NoMessage
  /\ calls' = Append(calls, "discover_tools")
  /\ UNCHANGED <<session, cat_pc>>
  /\ RetryLoopUnchanged

\* health_check's try/except around discover_tools: True when it returns,
\* False when it raises an MCPError, any other exception goes to the caller
health_check(d) ==
  IF d.res.kind = "return"
    THEN Return("True")
    ELSE IF d.res.exc \in {"MCPError", "MCPConnectionError", "MCPTimeoutError",
                           "MCPAuthError"}
           THEN Return("False")
           ELSE d.res

\* health_check(): a temporary session when there is none, discover_tools,
\* and the temporary session closed again
HealthCheck ==
  /\ UserCalls < MaxCalls
  /\ \E k \in 0..(max_retries + 1), o \in CatalogOutcomes :
       LET session_was_none == session = "None"
           d == discover_tools(IF session_was_none THEN "open" ELSE session,
                               ScriptOf(k, o))
       IN /\ cat_in' = [NoInput EXCEPT !.script = ScriptOf(k, o)]
          /\ available_tools' = d.tools
          /\ cat_result' = health_check(d)
          /\ cat_posts' = d.posts
          /\ request_id' = request_id + d.posts
          /\ session' = IF session_was_none THEN close("open") ELSE session
  /\ cat_op' = "health_check"
  /\ cat_sent' = NoArguments
  /\ cat_msg' = NoMessage
  /\ calls' = Append(calls, "health_check")
  /\ UNCHANGED cat_pc
  /\ RetryLoopUnchanged

\* a plausible slip: no membership test before the request
ToolKnown_any(name) == TRUE

\* tool_name in self.available_tools
ToolKnown(name) == name \in available_tools

\* call_tool(tool_name, arguments, stream)
CallTool ==
  /\ UserCalls < MaxCalls
  /\ \E name \in ToolNames, args \in ToolArguments, stream \in BOOLEAN :
       IF ~ToolKnown(name)
         THEN /\ cat_in' = [name |-> name, args |-> args, stream |-> stream,
                            script |-> <<>>]
              /\ cat_result' = Raise("MCPError")
              /\ cat_posts' = 0
              /\ cat_sent' = NoArguments
              /\ cat_msg' = NotAvailableMessage(name)
              /\ UNCHANGED request_id
         ELSE \E k \in 0..(max_retries + 1), o \in CatalogOutcomes :
                LET r == make_request_with_retry(session, ScriptOf(k, o), stream)
                IN /\ cat_in' = [name |-> name, args |-> args, stream |-> stream,
                                 script |-> IF stream THEN <<>> ELSE ScriptOf(k, o)]
                   /\ cat_result' = r.res
                   /\ cat_posts' = r.posts
                   /\ cat_sent' = IF r.posts > 0 THEN args ELSE NoArguments
                   /\ cat_msg' = NoMessage
                   /\ request_id' = request_id + r.posts
  /\ cat_op' = "call_tool"
  /\ calls' = Append(calls, "call_tool")
  /\ UNCHANGED <<session, cat_pc, available_tools>>
  /\ RetryLoopUnchanged

\* ------------------------------------ parse_sse_response, the read loop
\* max_size = 1024 * 1024
max_size == 1048576

\* response.read(8192)
ChunkSize == 8192

\* the lengths of the response bodies read, in bytes
BodySizes ==
  {0, 1, ChunkSize, max_size - ChunkSize, max_size - 1, max_size, max_size + 1,
   max_size + ChunkSize, 2 * max_size}

\* response_text = "", bytes_read = 0
InitRead ==
  /\ r_left \in BodySizes
  /\ response_text = 0
  /\ bytes_read = 0
  /\ r_pc = "reading"
  /\ r_truncated = FALSE
  /\ r_parsed = -1
  /\ r_result = "none"

\* no response being read
IdleRead ==
  /\ r_left = 0
  /\ response_text = 0
  /\ bytes_read = 0
  /\ r_pc = "returned"
  /\ r_truncated = FALSE
  /\ r_parsed = -1
  /\ r_result = "none"

\* a plausible slip: the chunk appended before the size test
Accumulate_then_test(text, chunk, total) == text + chunk

\* response_text after one pass of the loop over a chunk that decodes: the
\* chunk that takes bytes_read past max_size is dropped
Accumulate(text, chunk, total) == IF total > max_size THEN text ELSE text + chunk

\* one pass of `while True`: read a chunk, leave at the end of the body or at
\* the size test, else decode and append
ReadChunk ==
  /\ r_pc = "reading"
  /\ LET chunk == Min(ChunkSize, r_left)
     IN IF chunk = 0
          THEN /\ r_pc' = "parsing"
               /\ UNCHANGED <<r_left, response_text, bytes_read, r_truncated>>
          ELSE /\ r_left' = r_left - chunk
               /\ bytes_read' = bytes_read + chunk
               /\ response_text' = Accumulate(response_text, chunk, bytes_read + chunk)
               /\ r_truncated' = (bytes_read + chunk > max_size)
               /\ r_pc' = IF bytes_read + chunk > max_size THEN "parsing" ELSE "reading"
  /\ UNCHANGED <<r_parsed, r_result>>

\* chunk.decode('utf-8') raises (the chunk ends inside a character, or holds
\* bytes that are not UTF-8): the outer `except Exception` answers
DecodeFails ==
  /\ r_pc = "reading"
  /\ LET chunk == Min(ChunkSize, r_left)
     IN /\ chunk > 0
        /\ bytes_read + chunk <= max_size
        /\ r_left' = r_left - chunk
        /\ bytes_read' = bytes_read + chunk
  /\ r_pc' = "returned"
  /\ r_result' = "sse_parsing_error"
  /\ UNCHANGED <<response_text, r_truncated, r_parsed>>

\* lines = response_text.strip().split('\n') and what follows
ParseText ==
  /\ r_pc = "parsing"
  /\ r_parsed' = response_text
  /\ r_result' = "parsed"
  /\ r_pc' = "returned"
  /\ UNCHANGED <<r_left, response_text, bytes_read, r_truncated>>

\* ------------------------------------------------- ImprovedMalloyMCPBridge
\* A stdin line after line.strip(): shape "blank", "malformed" (json.loads
\* raises JSONDecodeError), "nonobject" (valid JSON that is no object) or
\* "object"; for an object, its method, id and params members ("absent" = no
\* such key; params "array" = a value that is no object).
BlankLine == [shape |-> "blank", method |-> "absent", id |-> "absent", params |-> "absent"]

MalformedLine ==
  [shape |-> "malformed", method |-> "absent", id |-> "absent", params |-> "absent"]

NonObjectLine ==
  [shape |-> "nonobject", method |-> "absent", id |-> "absent", params |-> "absent"]

ObjectLines ==
  {l \in [shape : {"object"},
          method : {"absent", "notifications/initialized", "tools/list", "tools/call"},
          id : {"absent", "null", "7"},
          params : {"absent", "object", "array"}] :
     l.params # "absent" => l.method = "tools/call"}

InputLines == {BlankLine, MalformedLine, NonObjectLine} \cup ObjectLines

NoRequest == [id |-> "absent", method |-> "none"]

NoReply == [kind |-> "none", content_type |-> "none", body |-> <<>>, status |-> 0]

\* a plausible slip: only a request without an id is taken for a notification
IsNotification_without_id(l) ==
  l.method = "notifications/initialized" /\ l.id \in {"absent", "null"}

\* if method == "notifications/initialized"
IsNotification(l) == l.method = "notifications/initialized"

\* the exception process_request meets before urlopen is reached: json.loads on
\* a malformed line, request.get on a value that is no object, the missing
\* method, and in send_request request.get("params", {}).get on params that
\* are no object (tools/call only); "none" when there is none
ExceptionBeforeSend(l) ==
  IF l.shape = "malformed"
    THEN "JSONDecodeError"
    ELSE IF l.shape = "nonobject"
           THEN "AttributeError"
           ELSE IF l.method = "absent"
                  THEN "ValueError"
                  ELSE IF IsNotification(l)
                         THEN "none"
                         ELSE IF l.method = "tools/call" /\ l.params = "array"
                                THEN "AttributeError"
                                ELSE "none"

\* a plausible slip: the ValueError clause placed first catches JSONDecodeError
HandlerCode_valueerror_first(exc) ==
  IF exc \in {"JSONDecodeError", "ValueError"} THEN -32600 ELSE -32603

\* a plausible slip: no clause for ValueError
HandlerCode_no_valueerror(exc) ==
  IF exc = "JSONDecodeError" THEN -32700 ELSE -32603

\* the except clauses of process_request
HandlerCode(exc) ==
  IF exc = "JSONDecodeError"
    THEN -32700
    ELSE IF exc = "ValueError" THEN -32600 ELSE -32603

\* the error response process_request builds, "id": None
HandlerResponse(exc) ==
  BridgeError(HandlerCode(exc),
              IF exc = "JSONDecodeError" THEN "Parse error"
              ELSE IF exc = "ValueError" THEN "Invalid Request" ELSE "Internal error",
              "null")

\* a plausible slip: the request forwarded with the id it came with
ForwardedRequest_as_is(l) == [id |-> l.id, method |-> l.method]

\* "Ensure ID is present and valid": a missing or null id becomes 1
ForwardedRequest(l) ==
  [id |-> IF l.id \in {"absent", "null"} THEN "1" ELSE l.id, method |-> l.method]

\* what urlopen and response.read() can meet for a request with id rid
ReplyDocs(rid) ==
  {ResultDoc(i, "tools_empty") : i \in {rid, "99", "absent", "null"}}
    \cup {ErrorDoc(rid, "error_object", -32601), ArrayDoc, Garbage}

Replies(rid) ==
  {[kind |-> "response", content_type |-> "application/json",
    body |-> PlainBody(d), status |-> 200] : d \in ReplyDocs(rid)}
    \cup {[kind |-> "response", content_type |-> "text/event-stream",
           body |-> SseBody("event_data", d), status |-> 200] :
            d \in {ResultDoc(rid, "tools_empty"), ResultDoc("absent", "tools_empty"),
                   Garbage}}
    \cup {[kind |-> "http_error", content_type |-> "none", body |-> <<>>,
           status |-> st] : st \in {404, 500}}
    \cup {[kind |-> k, content_type |-> "none", body |-> <<>>, status |-> 0] :
            k \in {"url_error", "timeout"}}

\* a plausible slip: every failure reported as Internal error
HttpErrorCode_internal(status) == -32603

\* "code": e.code in the HTTPError handler
HttpErrorCode(status) == status

\* send_request from urlopen on: the response it returns
send_request(req, r) ==
  CASE r.kind = "response" -> decode_response(r.content_type, r.body, req.id)
    [] r.kind = "http_error" -> BridgeError(HttpErrorCode(r.status), "HTTP", req.id)
    [] r.kind = "url_error" -> BridgeError(-32603, "Connection error", req.id)
    [] OTHER -> BridgeError(-32603, "Unexpected error", req.id)

\* what kind of line it was, for the history
LineTag(l) ==
  IF l.shape = "blank"
    THEN "blank"
    ELSE IF l.shape = "malformed"
           THEN "malformed"
           ELSE IF l.shape = "object" /\ l.method = "notifications/initialized"
                  THEN "notification"
                  ELSE IF ExceptionBeforeSend(l) # "none" THEN "invalid" ELSE "request"

Signals == {"SIGINT", "SIGTERM"}

\* the status the process ends with: sys.exit(0) in signal_handler and in
\* safe_print, the normal end after the loop, sys.exit(1) in run()'s and in
\* __main__'s `except Exception`
ExitStatus(reason) ==
  IF reason \in Signals \cup {"eof", "broken_pipe"} THEN 0 ELSE 1

\* safe_print(resp) for stdin line n, whose earlier output is w: one line
\* written and flushed, or BrokenPipeError and sys.exit(0)
safe_print(n, w, resp, pipe) ==
  IF pipe = "ok"
    THEN /\ written' = Append(w, resp)
         /\ out' = Append(out, n)
         /\ b_pc' = "read"
         /\ UNCHANGED <<exit_code, exit_reason>>
    ELSE /\ written' = w
         /\ out' = out
         /\ b_pc' = "exited"
         /\ exit_code' = ExitStatus("broken_pipe")
         /\ exit_reason' = "broken_pipe"

\* a plausible slip: requests dispatched without waiting for the one in flight
CanReadNext_async == b_pc \in {"read", "forward"}

\* run() reads the next line only when process_request has returned
CanReadNext == b_pc = "read"

InitBridge ==
  /\ b_pc = "start"
  /\ exit_code = -1
  /\ exit_reason = "none"
  /\ sig_at = -1
  /\ nread = 0
  /\ inLog = <<>>
  /\ out = <<>>
  /\ line = BlankLine
  /\ fwd = NoRequest
  /\ http_calls = 0
  /\ reply = NoReply
  /\ written = <<>>

\* __main__: the bridge is constructed (stdio reconfigured, signal handlers
\* installed) and run() is entered, or the constructor raises and `except
\* Exception` ends the process with sys.exit(1)
Startup ==
  /\ b_pc = "start"
  /\ \E ok \in BOOLEAN :
       IF ok
         THEN /\ b_pc' = "read"
              /\ UNCHANGED <<exit_code, exit_reason>>
         ELSE /\ b_pc' = "exited"
              /\ exit_code' = ExitStatus("startup")
              /\ exit_reason' = "startup"
  /\ UNCHANGED <<sig_at, nread, inLog, out, line, fwd, http_calls, reply, written>>

\* run(): the next stdin line is read and process_request handles it, up to
\* the urlopen call when the request is forwarded
ReadLine ==
  /\ CanReadNext
  /\ nread < MaxLines
  /\ UNCHANGED sig_at
  /\ \E l \in InputLines, pipe \in {"ok", "broken"} :
       /\ line' = l
       /\ nread' = nread + 1
       /\ inLog' = Append(inLog, LineTag(l))
       /\ reply' = NoReply
       /\ IF l.shape = "blank"
            THEN /\ fwd' = NoRequest
                 /\ http_calls' = 0
                 /\ written' = <<>>
                 /\ b_pc' = "read"
                 /\ UNCHANGED <<out, exit_code, exit_reason>>
            ELSE IF ExceptionBeforeSend(l) # "none"
                   THEN /\ fwd' = IF l.shape = "object" /\ l.method # "absent"
                                    THEN ForwardedRequest(l) ELSE NoRequest
                        /\ http_calls' = 0
                        /\ safe_print(nread + 1, <<>>, HandlerResponse(ExceptionBeforeSend(l)), pipe)
                   ELSE IF IsNotification(l)
                          THEN /\ fwd' = NoRequest
                               /\ http_calls' = 0
                               /\ written' = <<>>
                               /\ b_pc' = "read"
                               /\ UNCHANGED <<out, exit_code, exit_reason>>
                          ELSE /\ fwd' = ForwardedRequest(l)
                               /\ http_calls' = 1
                               /\ written' = <<>>
                               /\ b_pc' = "forward"
                               /\ UNCHANGED <<out, exit_code, exit_reason>>

\* urlopen returns or raises; send_request builds the response and
\* process_request prints it.  On HTTPError the handler first reads the error
\* body (e.read()).
RemoteReply ==
  /\ b_pc = "forward"
  /\ \E r \in Replies(fwd.id), pipe \in {"ok", "broken"} :
       /\ reply' = r
       /\ IF r.kind = "http_error"
            THEN /\ b_pc' = "error_body"
                 /\ UNCHANGED <<exit_code, exit_reason, out, written>>
            ELSE safe_print(nread, written, send_request(fwd, r), pipe)
  /\ UNCHANGED <<sig_at, nread, inLog, line, fwd, http_calls>>

\* the HTTPError handler after e.read(): the error response is returned and
\* printed
HttpErrorBody ==
  /\ b_pc = "error_body"
  /\ \E pipe \in {"ok", "broken"} :
       safe_print(nread, written, send_request(fwd, reply), pipe)
  /\ UNCHANGED <<sig_at, nread, inLog, line, fwd, http_calls, reply>>

\* SIGINT or SIGTERM arrives: signal_handler calls sys.exit(0), which raises
\* SystemExit where the main thread stands.  It passes every `except
\* Exception`; the bare `except:` around e.read() catches it, and the handler
\* goes on.
Signal ==
  /\ b_pc \in {"read", "forward", "error_body"}
  /\ sig_at' = IF sig_at = -1 THEN nread ELSE sig_at
  /\ \E sig \in Signals :
       IF b_pc = "error_body"
         THEN UNCHANGED <<b_pc, exit_code, exit_reason>>
         ELSE /\ b_pc' = "exited"
              /\ exit_code' = ExitStatus(sig)
              /\ exit_reason' = sig
  /\ UNCHANGED <<nread, inLog, out, line, fwd, http_calls, reply, written>>

\* `for line in sys.stdin` raises (bytes that are no UTF-8, a read error):
\* run()'s `except Exception` logs "Fatal error in main loop" and calls
\* sys.exit(1)
StdinError ==
  /\ b_pc = "read"
  /\ b_pc' = "exited"
  /\ exit_code' = ExitStatus("stdin_error")
  /\ exit_reason' = "stdin_error"
  /\ UNCHANGED <<sig_at, nread, inLog, out, line, fwd, http_calls, reply, written>>

\* end of stdin: the for loop ends and the process exits normally
EndOfInput ==
  /\ b_pc = "read"
  /\ b_pc' = "exited"
  /\ exit_code' = ExitStatus("eof")
  /\ exit_reason' = "eof"
  /\ UNCHANGED <<sig_at, nread, inLog, out, line, fwd, http_calls, reply, written>>

\* ---------------------------------------------------------- CircuitBreaker
\* last_failure_time = None
NoTime == -1

\* CircuitBreaker.__init__
CircuitBreaker_init(threshold, tmo) ==
  /\ failure_threshold = threshold
  /\ timeout = tmo
  /\ failure_count = 0
  /\ last_failure_time = NoTime
  /\ state = "CLOSED"

InitBreaker ==
  /\ \E threshold \in 1..MaxThreshold, tmo \in 0..MaxTimeout :
       CircuitBreaker_init(threshold, tmo)
  /\ now = 0
  /\ op = "init"
  /\ ret = "None"
  /\ prev = "CLOSED"
  /\ streak = 0

IdleBreaker ==
  /\ CircuitBreaker_init(1, 0)
  /\ now = 0
  /\ op = "init"
  /\ ret = "None"
  /\ prev = "CLOSED"
  /\ streak = 0

\* a plausible slip: >= where the code has >
is_open_ge ==
  /\ op' = "is_open"
  /\ prev' = state
  /\ IF state = "OPEN"
       THEN IF last_failure_time = NoTime
              THEN /\ ret' = "TypeError"
                   /\ state' = state
              ELSE IF now - last_failure_time >= timeout
                     THEN /\ state' = "HALF_OPEN"
                          /\ ret' = "False"
                     ELSE /\ state' = state
                          /\ ret' = "True"
       ELSE /\ ret' = "False"
            /\ state' = state
  /\ UNCHANGED <<failure_threshold, timeout, failure_count, last_failure_time,
                 now, streak>>

\* a plausible slip: the move to HALF_OPEN also clears the failure count
is_open_clears_count ==
  /\ op' = "is_open"
  /\ prev' = state
  /\ IF state = "OPEN"
       THEN IF last_failure_time = NoTime
              THEN /\ ret' = "TypeError"
                   /\ state' = state
                   /\ failure_count' = failure_count
              ELSE IF now - last_failure_time > timeout
                     THEN /\ state' = "HALF_OPEN"
                          /\ ret' = "False"
                          /\ failure_count' = 0
                     ELSE /\ state' = state
                          /\ ret' = "True"
                          /\ failure_count' = failure_count
       ELSE /\ ret' = "False"
            /\ state' = state
            /\ failure_count' = failure_count
  /\ UNCHANGED <<failure_threshold, timeout, last_failure_time, now, streak>>

\* time.time() - self.last_failure_time > self.timeout; the subtraction raises
\* TypeError when last_failure_time is None
is_open ==
  /\ op' = "is_open"
  /\ prev' = state
  /\ IF state = "OPEN"
       THEN IF last_failure_time = NoTime
              THEN /\ ret' = "TypeError"
                   /\ state' = state
              ELSE IF now - last_failure_time > timeout
                     THEN /\ state' = "HALF_OPEN"
                          /\ ret' = "False"
                     ELSE /\ state' = state
                          /\ ret' = "True"
       ELSE /\ ret' = "False"
            /\ state' = state
  /\ UNCHANGED <<failure_threshold, timeout, failure_count, last_failure_time,
                 now, streak>>

\* a plausible slip: the state closed but the failure count kept
record_success_keeps_count ==
  /\ op' = "record_success"
  /\ prev' = state
  /\ ret' = "None"
  /\ state' = "CLOSED"
  /\ streak' = 0
  /\ UNCHANGED <<failure_threshold, timeout, failure_count, last_failure_time, now>>

record_success ==
  /\ op' = "record_success"
  /\ prev' = state
  /\ ret' = "None"
  /\ failure_count' = 0
  /\ state' = "CLOSED"
  /\ streak' = 0
  /\ UNCHANGED <<failure_threshold, timeout, last_failure_time, now>>

\* a plausible slip: > where the code has >=
record_failure_gt ==
  /\ failure_count < MaxFailures
  /\ op' = "record_failure"
  /\ prev' = state
  /\ ret' = "None"
  /\ failure_count' = failure_count + 1
  /\ last_failure_time' = now
  /\ state' = IF failure_count + 1 > failure_threshold THEN "OPEN" ELSE state
  /\ streak' = streak + 1
  /\ UNCHANGED <<failure_threshold, timeout, now>>

\* a plausible slip: the time of the first failure kept
record_failure_keeps_time ==
  /\ failure_count < MaxFailures
  /\ op' = "record_failure"
  /\ prev' = state
  /\ ret' = "None"
  /\ failure_count' = failure_count + 1
  /\ last_failure_time' = IF last_failure_time = NoTime THEN now ELSE last_failure_time
  /\ state' = IF failure_count + 1 >= failure_threshold THEN "OPEN" ELSE state
  /\ streak' = streak + 1
  /\ UNCHANGED <<failure_threshold, timeout, now>>

record_failure ==
  /\ failure_count < MaxFailures
  /\ op' = "record_failure"
  /\ prev' = state
  /\ ret' = "None"
  /\ failure_count' = failure_count + 1
  /\ last_failure_time' = now
  /\ state' = IF failure_count + 1 >= failure_threshold THEN "OPEN" ELSE state
  /\ streak' = streak + 1
  /\ UNCHANGED <<failure_threshold, timeout, now>>

\* the clock read by time.time() advances between calls
Tick ==
  /\ now < MaxNow
  /\ now' = now + 1
  /\ op' = "tick"
  /\ UNCHANGED <<failure_threshold, timeout, failure_count, last_failure_time,
                 state, ret, prev, streak>>

\* ------------------------------------------------- process_slack_events
\* The listener threads of the Socket Mode client: each runs
\* process_slack_events for one event at a time, all on the one circuit_breaker.
Handlers == {"t1", "t2"}

\* no endpoint served yet
NotServed == [endpoint |-> "none", state |-> "none", failure_count |-> 0,
              last_failure |-> NoTime]

InitHandler ==
  /\ served = NotServed
  /\ h_pc = [h \in Handlers |-> "idle"]
  /\ h_adm = [h \in Handlers |-> "none"]
  /\ h_agent = [h \in Handlers |-> 0]
  /\ h_rec = [h \in Handlers |-> <<>>]
  /\ h_msg = [h \in Handlers |-> "none"]
  /\ events = 0

\* an event arrives at thread h: `if circuit_breaker.is_open():` sends
\* 'agent_down' and returns, otherwise process_user_question is called
CheckBreaker(h) ==
  /\ h_pc[h] \in {"idle", "done"}
  /\ events < MaxEvents
  /\ events' = events + 1
  /\ is_open
  /\ h_rec' = [h_rec EXCEPT ![h] = <<>>]
  /\ UNCHANGED served
  /\ IF ret' = "True"
       THEN /\ h_pc' = [h_pc EXCEPT ![h] = "done"]
            /\ h_adm' = [h_adm EXCEPT ![h] = "refused"]
            /\ h_agent' = [h_agent EXCEPT ![h] = 0]
            /\ h_msg' = [h_msg EXCEPT ![h] = "agent_down"]
       ELSE IF ret' = "False"
              THEN /\ h_pc' = [h_pc EXCEPT ![h] = "agent"]
                   /\ h_adm' = [h_adm EXCEPT ![h] =
                                  IF state = "OPEN" THEN "trial" ELSE "admitted"]
                   /\ h_agent' = [h_agent EXCEPT ![h] = 1]
                   /\ h_msg' = [h_msg EXCEPT ![h] = "none"]
              ELSE /\ h_pc' = [h_pc EXCEPT ![h] = "done"]
                   /\ h_adm' = [h_adm EXCEPT ![h] = "raised"]
                   /\ h_agent' = [h_agent EXCEPT ![h] = 0]
                   /\ h_msg' = [h_msg EXCEPT ![h] = "none"]

\* process_user_question returns (success, ...) or raises: record_success and
\* on to the reply, or record_failure and the error message
AgentReturns(h) ==
  /\ h_pc[h] = "agent"
  /\ \E outcome \in {"success", "failure", "exception"} :
       IF outcome = "success"
         THEN /\ record_success
              /\ h_rec' = [h_rec EXCEPT ![h] = Append(@, "record_success")]
              /\ h_pc' = [h_pc EXCEPT ![h] = "reply"]
              /\ UNCHANGED h_msg
         ELSE /\ record_failure
              /\ h_rec' = [h_rec EXCEPT ![h] = Append(@, "record_failure")]
              /\ h_pc' = [h_pc EXCEPT ![h] = "done"]
              /\ h_msg' = [h_msg EXCEPT ![h] = "error"]
  /\ UNCHANGED <<h_adm, h_agent, events, served>>

\* the rest of the `if success:` block: the answer is posted to the thread, or
\* a call in the block raises and `except Exception` runs
ReplySent(h) ==
  /\ h_pc[h] = "reply"
  /\ \E posted \in BOOLEAN :
       IF posted
         THEN /\ h_msg' = [h_msg EXCEPT ![h] = "answer"]
              /\ UNCHANGED <<breakerVars, h_rec>>
         ELSE /\ record_failure
              /\ h_rec' = [h_rec EXCEPT ![h] = Append(@, "record_failure")]
              /\ h_msg' = [h_msg EXCEPT ![h] = "error"]
  /\ h_pc' = [h_pc EXCEPT ![h] = "done"]
  /\ UNCHANGED <<h_adm, h_agent, events, served>>

\* GET /ready: ready_checks["circuit_breaker_state"] = circuit_breaker.state
Ready ==
  /\ served' = [endpoint |-> "/ready", state |-> state, failure_count |-> 0,
                last_failure |-> NoTime]
  /\ UNCHANGED <<breakerVars, h_pc, h_adm, h_agent, h_rec, h_msg, events>>

\* GET /metrics: the "circuit_breaker" object of the response
Metrics ==
  /\ served' = [endpoint |-> "/metrics", state |-> state,
                failure_count |-> failure_count, last_failure |-> last_failure_time]
  /\ UNCHANGED <<breakerVars, h_pc, h_adm, h_agent, h_rec, h_msg, events>>

\* ------------------------- record_failure, statement by statement, in threads
\* no thread inside record_failure
InitRace ==
  /\ t_pc = [h \in Handlers |-> "idle"]
  /\ t_count = [h \in Handlers |-> 0]

\* record_failure calls begun and not yet returned
InProgress == Cardinality({h \in Handlers : t_pc[h] # "idle"})

\* `self.failure_count += 1`, first half: the attribute is loaded
LoadCount(h) ==
  /\ t_pc[h] = "idle"
  /\ streak + InProgress < MaxFailures
  /\ t_pc' = [t_pc EXCEPT ![h] = "loaded"]
  /\ t_count' = [t_count EXCEPT ![h] = failure_count]
  /\ UNCHANGED breakerVars

\* `self.failure_count += 1`, second half: the sum is stored
StoreCount(h) ==
  /\ t_pc[h] = "loaded"
  /\ failure_count' = t_count[h] + 1
  /\ t_pc' = [t_pc EXCEPT ![h] = "stored"]
  /\ UNCHANGED <<failure_threshold, timeout, last_failure_time, state, now, op, ret,
                 prev, streak, t_count>>

\* self.last_failure_time = time.time()
StoreTime(h) ==
  /\ t_pc[h] = "stored"
  /\ last_failure_time' = now
  /\ t_pc' = [t_pc EXCEPT ![h] = "timed"]
  /\ UNCHANGED <<failure_threshold, timeout, failure_count, state, now, op, ret, prev,
                 streak, t_count>>

\* `if self.failure_count >= self.failure_threshold: self.state = "OPEN"`, and
\* the call returns
TestThreshold(h) ==
  /\ t_pc[h] = "timed"
  /\ state' = IF failure_count >= failure_threshold THEN "OPEN" ELSE state
  /\ t_pc' = [t_pc EXCEPT ![h] = "idle"]
  /\ op' = "record_failure"
  /\ prev' = state
  /\ ret' = "None"
  /\ streak' = streak + 1
  /\ UNCHANGED <<failure_threshold, timeout, failure_count, last_failure_time, now,
                 t_count>>

NextBreaker ==
  \/ is_open /\ UNCHANGED <<decodeVars, clientVars, bridgeVars, handlerVars, catalogVars, readVars, raceVars, idVars, cacheVars>>
  \/ record_success /\ UNCHANGED <<decodeVars, clientVars, bridgeVars, handlerVars, catalogVars, readVars, raceVars, idVars, cacheVars>>
  \/ record_failure /\ UNCHANGED <<decodeVars, clientVars, bridgeVars, handlerVars, catalogVars, readVars, raceVars, idVars, cacheVars>>
  \/ Tick /\ UNCHANGED <<decodeVars, clientVars, bridgeVars, handlerVars, catalogVars, readVars, raceVars, idVars, cacheVars>>

StartBreaker == InitBreaker /\ IdleDecode /\ IdleClient /\ InitBridge /\ InitHandler /\ InitCatalog /\ IdleRead /\ InitRace /\ InitIds /\ IdleCache

SpecBreaker == StartBreaker /\ [][NextBreaker]_vars

NextDecode ==
  \/ BridgeDecodePlain /\ UNCHANGED <<breakerVars, clientVars, bridgeVars, handlerVars, catalogVars, readVars, raceVars, idVars, cacheVars>>
  \/ BridgeDecodeSse /\ UNCHANGED <<breakerVars, clientVars, bridgeVars, handlerVars, catalogVars, readVars, raceVars, idVars, cacheVars>>
  \/ ClientDecodePlain /\ UNCHANGED <<breakerVars, clientVars, bridgeVars, handlerVars, catalogVars, readVars, raceVars, idVars, cacheVars>>
  \/ ClientDecodeSse /\ UNCHANGED <<breakerVars, clientVars, bridgeVars, handlerVars, catalogVars, readVars, raceVars, idVars, cacheVars>>

StartDecode == InitDecode /\ IdleBreaker /\ IdleClient /\ InitBridge /\ InitHandler /\ InitCatalog /\ IdleRead /\ InitRace /\ InitIds /\ IdleCache

SpecDecode == StartDecode /\ [][NextDecode]_vars

NextRetry ==
  \/ Call /\ UNCHANGED <<breakerVars, decodeVars, bridgeVars, handlerVars, catalogVars, readVars, raceVars, idVars, cacheVars>>
  \/ Attempt /\ UNCHANGED <<breakerVars, decodeVars, bridgeVars, handlerVars, catalogVars, readVars, raceVars, idVars, cacheVars>>
  \/ Sleep /\ UNCHANGED <<breakerVars, decodeVars, bridgeVars, handlerVars, catalogVars, readVars, raceVars, idVars, cacheVars>>
  \/ Iterate /\ UNCHANGED <<breakerVars, decodeVars, bridgeVars, handlerVars, catalogVars, readVars, raceVars, idVars, cacheVars>>

StartRetry == InitClient /\ IdleBreaker /\ IdleDecode /\ InitBridge /\ InitHandler /\ InitCatalog /\ IdleRead /\ InitRace /\ InitIds /\ IdleCache

SpecRetry == StartRetry /\ [][NextRetry]_vars

NextBridge ==
  \/ Startup /\ UNCHANGED <<breakerVars, decodeVars, clientVars, handlerVars, catalogVars, readVars, raceVars, idVars, cacheVars>>
  \/ ReadLine /\ UNCHANGED <<breakerVars, decodeVars, clientVars, handlerVars, catalogVars, readVars, raceVars, idVars, cacheVars>>
  \/ HttpErrorBody /\ UNCHANGED <<breakerVars, decodeVars, clientVars, handlerVars, catalogVars, readVars, raceVars, idVars, cacheVars>>
  \/ Signal /\ UNCHANGED <<breakerVars, decodeVars, clientVars, handlerVars, catalogVars, readVars, raceVars, idVars, cacheVars>>
  \/ StdinError /\ UNCHANGED <<breakerVars, decodeVars, clientVars, handlerVars, catalogVars, readVars, raceVars, idVars, cacheVars>>
  \/ RemoteReply /\ UNCHANGED <<breakerVars, decodeVars, clientVars, handlerVars, catalogVars, readVars, raceVars, idVars, cacheVars>>
  \/ EndOfInput /\ UNCHANGED <<breakerVars, decodeVars, clientVars, handlerVars, catalogVars, readVars, raceVars, idVars, cacheVars>>

StartBridge == InitBridge /\ IdleBreaker /\ IdleDecode /\ IdleClient /\ InitHandler /\ InitCatalog /\ IdleRead /\ InitRace /\ InitIds /\ IdleCache

SpecBridge == StartBridge /\ [][NextBridge]_vars

NextHandler ==
  \/ \E h \in Handlers :
       CheckBreaker(h) /\ UNCHANGED <<decodeVars, clientVars, bridgeVars, catalogVars, readVars, raceVars, idVars, cacheVars>>
  \/ \E h \in Handlers :
       AgentReturns(h) /\ UNCHANGED <<decodeVars, clientVars, bridgeVars, catalogVars, readVars, raceVars, idVars, cacheVars>>
  \/ \E h \in Handlers :
       ReplySent(h) /\ UNCHANGED <<decodeVars, clientVars, bridgeVars, catalogVars, readVars, raceVars, idVars, cacheVars>>
  \/ Tick /\ UNCHANGED <<decodeVars, clientVars, bridgeVars, handlerVars, catalogVars, readVars, raceVars, idVars, cacheVars>>
  \/ Ready /\ UNCHANGED <<decodeVars, clientVars, bridgeVars, catalogVars, readVars, raceVars, idVars, cacheVars>>
  \/ Metrics /\ UNCHANGED <<decodeVars, clientVars, bridgeVars, catalogVars, readVars, raceVars, idVars, cacheVars>>

StartHandler == InitBreaker /\ InitHandler /\ IdleDecode /\ IdleClient /\ InitBridge /\ InitCatalog /\ IdleRead /\ InitRace /\ InitIds /\ IdleCache

SpecHandler == StartHandler /\ [][NextHandler]_vars

NextCatalog ==
  \/ Enter /\ UNCHANGED <<breakerVars, decodeVars, bridgeVars, handlerVars, readVars, raceVars, idVars, cacheVars>>
  \/ Exit /\ UNCHANGED <<breakerVars, decodeVars, bridgeVars, handlerVars, readVars, raceVars, idVars, cacheVars>>
  \/ DiscoverTools /\ UNCHANGED <<breakerVars, decodeVars, bridgeVars, handlerVars, readVars, raceVars, idVars, cacheVars>>
  \/ CallTool /\ UNCHANGED <<breakerVars, decodeVars, bridgeVars, handlerVars, readVars, raceVars, idVars, cacheVars>>
  \/ HealthCheck /\ UNCHANGED <<breakerVars, decodeVars, bridgeVars, handlerVars, readVars, raceVars, idVars, cacheVars>>

StartCatalog == InitCatalog /\ NewClient /\ IdleBreaker /\ IdleDecode /\ InitBridge /\ InitHandler /\ IdleRead /\ InitRace /\ InitIds /\ IdleCache

SpecCatalog == StartCatalog /\ [][NextCatalog]_vars

NextRead ==
  \/ ReadChunk /\ UNCHANGED <<breakerVars, decodeVars, clientVars, bridgeVars, handlerVars, catalogVars, raceVars, idVars, cacheVars>>
  \/ DecodeFails /\ UNCHANGED <<breakerVars, decodeVars, clientVars, bridgeVars, handlerVars, catalogVars, raceVars, idVars, cacheVars>>
  \/ ParseText /\ UNCHANGED <<breakerVars, decodeVars, clientVars, bridgeVars, handlerVars, catalogVars, raceVars, idVars, cacheVars>>

StartRead == InitRead /\ IdleBreaker /\ IdleDecode /\ IdleClient /\ InitBridge /\ InitHandler /\ InitCatalog /\ InitRace /\ InitIds /\ IdleCache

SpecRead == StartRead /\ [][NextRead]_vars

NextRace ==
  \/ \E h \in Handlers :
       LoadCount(h) /\ UNCHANGED <<decodeVars, clientVars, bridgeVars, handlerVars, catalogVars, readVars, idVars, cacheVars>>
  \/ \E h \in Handlers :
       StoreCount(h) /\ UNCHANGED <<decodeVars, clientVars, bridgeVars, handlerVars, catalogVars, readVars, idVars, cacheVars>>
  \/ \E h \in Handlers :
       StoreTime(h) /\ UNCHANGED <<decodeVars, clientVars, bridgeVars, handlerVars, catalogVars, readVars, idVars, cacheVars>>
  \/ \E h \in Handlers :
       TestThreshold(h) /\ UNCHANGED <<decodeVars, clientVars, bridgeVars, handlerVars, catalogVars, readVars, idVars, cacheVars>>
  \/ Tick /\ UNCHANGED <<decodeVars, clientVars, bridgeVars, handlerVars, catalogVars, readVars, raceVars, idVars, cacheVars>>

StartRace == InitBreaker /\ InitRace /\ IdleDecode /\ IdleClient /\ InitBridge /\ InitHandler /\ InitCatalog /\ IdleRead /\ InitIds /\ IdleCache

SpecRace == StartRace /\ [][NextRace]_vars

NextIds ==
  \/ \E t \in Tasks :
       Post(t) /\ UNCHANGED <<breakerVars, decodeVars, bridgeVars, handlerVars, catalogVars, readVars, raceVars, cacheVars>>
  \/ \E t \in Tasks :
       Respond(t) /\ UNCHANGED <<breakerVars, decodeVars, bridgeVars, handlerVars, catalogVars, readVars, raceVars, cacheVars>>

\* a client inside its context manager, called by the tasks
OpenClient ==
  /\ max_retries \in 0..MaxRetries
  /\ base_delay = 1
  /\ max_delay = 1
  /\ delays = <<>>
  /\ session = "open"
  /\ request_id = 0
  /\ c_pc = "idle"
  /\ c_stream = FALSE
  /\ script = <<>>
  /\ attempt = 0
  /\ attempts = 0
  /\ sleeps = 0
  /\ last_exception = "None"
  /\ c_result = PendingOutcome
  /\ attempt_exc = <<>>

StartRequests == TasksAtStart /\ OpenClient /\ IdleBreaker /\ IdleDecode /\ InitBridge /\ InitHandler /\ InitCatalog /\ IdleRead /\ InitRace /\ IdleCache

SpecIds == StartRequests /\ [][NextIds]_vars

NextCache ==
  \/ HandleEvent /\ UNCHANGED <<breakerVars, decodeVars, clientVars, bridgeVars, handlerVars, catalogVars, readVars, raceVars, idVars>>

StartCache == InitCache /\ IdleBreaker /\ IdleDecode /\ IdleClient /\ InitBridge /\ InitHandler /\ InitCatalog /\ IdleRead /\ InitRace /\ InitIds

SpecCache == StartCache /\ [][NextCache]_vars

\* C1: with failure_threshold = N >= 1, once N record_failure() calls have been
\* made with no record_success() between them the state is OPEN; is_open() on an
\* OPEN breaker returns true while now - last_failure_time <= timeout; the first
\* is_open() after the timeout has elapsed returns false and moves the state to
\* HALF_OPEN; record_success() sets failure_count to 0 and the state to CLOSED.
C1_BreakerCycle ==
  [][ /\ (op' = "record_failure" /\ streak' >= failure_threshold)
          => state' = "OPEN"
      /\ (op' = "is_open" /\ state = "OPEN" /\ now - last_failure_time <= timeout)
          => (ret' = "True" /\ state' = "OPEN")
      /\ (op' = "is_open" /\ state = "OPEN" /\ now - last_failure_time > timeout)
          => (ret' = "False" /\ state' = "HALF_OPEN")
      /\ (op' = "record_success")
          => (failure_count' = 0 /\ state' = "CLOSED") ]_vars

\* C1 witness: a breaker that was opened by failure_threshold failures, went to
\* HALF_OPEN on the first is_open() after the timeout, and was closed by
\* record_success().
C1_Witness ==
  /\ op = "record_success"
  /\ prev = "HALF_OPEN"
  /\ state = "CLOSED"
  /\ failure_count = 0
  /\ last_failure_time # NoTime
  /\ now - last_failure_time > timeout

\* C9: a plain JSON body and an SSE body that carry the same envelope decode to
\* the same value, in the bridge (send_request) and in the client
\* (_parse_response).
C9_SameDecode ==
  /\ (d_bridge_plain # PendingResponse /\ d_bridge_sse # PendingResponse)
       => d_bridge_plain = d_bridge_sse
  /\ (d_client_plain # PendingOutcome /\ d_client_sse # PendingOutcome)
       => d_client_plain = d_client_sse

\* the bridge's half of C9 alone
C9_BridgeSameDecode ==
  (d_bridge_plain # PendingResponse /\ d_bridge_sse # PendingResponse)
    => d_bridge_plain = d_bridge_sse

\* the client's half of C9, for SSE bodies that start with "event: message"
C9_ClientSameDecodeEventFirst ==
  (d_client_plain # PendingOutcome /\ d_client_sse # PendingOutcome
     /\ d_frame \in {"event_data", "event_id_data"})
    => d_client_plain = d_client_sse

\* C2: _make_request_with_retry makes at most max_retries + 1 attempts, and when
\* the transport fails with a connection error on the first k <= max_retries
\* attempts and then succeeds, the call returns the success result after
\* exactly k + 1 attempts.
C2_RetryThenSuccess ==
  /\ attempts <= max_retries + 1
  /\ (c_pc \in {"returned", "raised"} /\ ~c_stream /\ session = "open")
       => \A k \in 0..max_retries :
            ((\A j \in 1..k : script[j] = "client_error") /\ script[k + 1] = "ok")
              => (c_pc = "returned" /\ c_result = Return("rows") /\ attempts = k + 1)

\* what holds of the retry loop: the bound on the attempts, and a success after
\* k timeouts (asyncio.TimeoutError) is returned after exactly k + 1 attempts
C2_TimeoutRetryThenSuccess ==
  /\ attempts <= max_retries + 1
  /\ (c_pc \in {"returned", "raised"} /\ ~c_stream /\ session = "open")
       => \A k \in 0..max_retries :
            ((\A j \in 1..k : script[j] = "timeout") /\ script[k + 1] = "ok")
              => (c_pc = "returned" /\ c_result = Return("rows") /\ attempts = k + 1)

AuthOrProtocol == {"http_401", "http_403", "rpc_error"}

\* C3: an attempt of _make_request that fails with an authentication error (HTTP
\* 401 or 403) or with a protocol error (an error member in the envelope) is the
\* call's last attempt, no sleep follows it, and that error is what the call
\* raises; when it is the first attempt there is exactly one attempt and no sleep.
C3_NoRetryOnAuthOrProtocol ==
  (~c_stream /\ session = "open")
    => \A j \in 1..attempts :
         script[j] \in AuthOrProtocol
           => /\ j = attempts
              /\ sleeps = j - 1
              /\ c_pc = "raised"
              /\ c_result = Raise(IF script[j] = "rpc_error" THEN "MCPError" ELSE "MCPAuthError")
              /\ (j = 1 => (attempts = 1 /\ sleeps = 0))

\* C3 witness: retries were allowed, the first attempt met HTTP 403, and the call
\* raised MCPAuthError after one attempt and no sleep.
C3_Witness ==
  /\ ~c_stream
  /\ session = "open"
  /\ max_retries >= 1
  /\ c_pc = "raised"
  /\ script[1] = "http_403"
  /\ attempts = 1
  /\ sleeps = 0
  /\ c_result = Raise("MCPAuthError")

\* C10: on the plain path and on the streaming path alike, status 401 or 403
\* raises MCPAuthError, any other status >= 400 raises MCPConnectionError, and a
\* transport failure raises MCPConnectionError.
C10_StatusClassification ==
  session = "open"
    => \A j \in 1..Len(attempt_exc) :
         /\ Status(script[j]) \in {401, 403} => attempt_exc[j] = "MCPAuthError"
         /\ (Status(script[j]) >= 400 /\ Status(script[j]) \notin {401, 403})
              => attempt_exc[j] = "MCPConnectionError"
         /\ script[j] = "client_error" => attempt_exc[j] = "MCPConnectionError"

\* C10 restricted to the plain path (_make_request)
C10_PlainPathClassification ==
  (session = "open" /\ ~c_stream)
    => \A j \in 1..Len(attempt_exc) :
         /\ Status(script[j]) \in {401, 403} => attempt_exc[j] = "MCPAuthError"
         /\ (Status(script[j]) >= 400 /\ Status(script[j]) \notin {401, 403})
              => attempt_exc[j] = "MCPConnectionError"
         /\ script[j] = "client_error" => attempt_exc[j] = "MCPConnectionError"

\* the handling of the current line is over and the loop went on: it is at the
\* read, or it ended there (end of stdin, a signal, a stdin error)
BackInLoop == b_pc = "read" \/ exit_reason \in Signals \cup {"eof", "stdin_error"}

\* the urlopen call for the current line has ended and its response was printed
Answered == http_calls = 1 /\ reply # NoReply /\ Len(written) > 0

\* C4: for every forwarded request and every outcome of its remote call, the id
\* of the response line written equals the id of the request as forwarded.
C4_ResponseIdIsRequestId ==
  Answered => written[1].id = fwd.id

\* what holds of the ids: the response carries the forwarded request's id
\* whenever the server's envelope has no id, a null id or that same id, and on
\* every failure of the call
C4_IdBackfilledOrEchoed ==
  (Answered /\ ~(reply.kind = "response"
                   /\ \E i \in 1..Len(reply.body) :
                        reply.body[i].doc.id \notin {"absent", "null", fwd.id}))
    => written[1].id = fwd.id

\* the stdin lines among the first n that call for a response line
Due(n) == {i \in 1..n : inLog[i] \notin {"blank", "notification"}}

\* stdout holds exactly one line for each line of Due(n), in stdin order
InOrder(n) ==
  /\ Len(out) = Cardinality(Due(n))
  /\ \A k \in 1..Len(out) : out[k] \in Due(n)
  /\ \A k \in 1..(Len(out) - 1) : out[k] < out[k + 1]

C7_NotificationSilent ==
  (nread > 0 /\ line.shape = "object" /\ line.method = "notifications/initialized")
    => /\ written = <<>>
       /\ http_calls = 0
       /\ reply = NoReply
       /\ fwd = NoRequest
       /\ b_pc # "forward"
       /\ exit_reason # "broken_pipe"
       /\ \A k \in 1..Len(out) : out[k] < nread

\* C7 witness: a notification that carries an id was read and the loop is back
\* at reading, nothing written.
C7_Witness ==
  /\ nread = 1
  /\ line.method = "notifications/initialized"
  /\ line.id = "7"
  /\ b_pc = "read"
  /\ out = <<>>

\* the remote call failed (HTTP error status, connection failure, timeout, or a
\* response body that does not decode) and send_request has returned
ForwardFailed ==
  /\ http_calls = 1
  /\ b_pc # "error_body"
  /\ \/ reply.kind \in {"http_error", "url_error", "timeout"}
     \/ /\ reply.kind = "response"
        /\ \E i \in 1..Len(reply.body) : reply.body[i].doc.shape = "garbage"

RetryableFailures == {"client_error", "timeout"}

\* C11: when every one of the max_retries + 1 attempts of a call fails with a
\* connection failure or a timeout, _make_request_with_retry raises and returns
\* no value: MCPTimeoutError when the last failure was a timeout,
\* MCPConnectionError when it was a connection failure.
C11_ExhaustedRaisesTyped ==
  (~c_stream /\ session = "open" /\ c_pc \in {"returned", "raised"}
     /\ attempts = max_retries + 1
     /\ \A j \in 1..attempts : script[j] \in RetryableFailures)
    => /\ c_pc = "raised"
       /\ c_result.kind = "raise"
       /\ c_result.exc = (IF script[attempts] = "timeout"
                            THEN "MCPTimeoutError" ELSE "MCPConnectionError")

\* C11 witness: two retries allowed, three attempts that all timed out, two
\* sleeps between them, and the call raised MCPTimeoutError.
C11_Witness ==
  /\ ~c_stream
  /\ session = "open"
  /\ max_retries = 2
  /\ attempts = 3
  /\ sleeps = 2
  /\ \A j \in 1..3 : script[j] = "timeout"
  /\ c_pc = "raised"
  /\ c_result = Raise("MCPTimeoutError")

\* the other case of C11: two timeouts, then a connection failure on the last
\* attempt, and the call raised MCPConnectionError
C11_WitnessConnection ==
  /\ ~c_stream
  /\ session = "open"
  /\ max_retries = 2
  /\ attempts = 3
  /\ script = <<"timeout", "timeout", "client_error">>
  /\ c_pc = "raised"
  /\ c_result = Raise("MCPConnectionError")

\* thread h's event passed the is_open() check
Admitted(h) == h_adm[h] \in {"admitted", "trial"}

\* C12: every event that passes the is_open() check results in exactly one call
\* of record_success or record_failure, never both and never neither, whatever
\* path the handler takes, also for an event admitted while HALF_OPEN.
C12_ExactlyOneRecord ==
  \A h \in Handlers :
    Admitted(h)
      => /\ Len(h_rec[h]) <= 1
         /\ h_pc[h] = "done" => Len(h_rec[h]) = 1

\* what holds of the records: an admitted event is never left without one, and
\* an event the breaker refused has none
C12_AtLeastOneRecord ==
  \A h \in Handlers :
    /\ (Admitted(h) /\ h_pc[h] = "done") => Len(h_rec[h]) >= 1
    /\ ~Admitted(h) => h_rec[h] = <<>>

\* thread g is the trial call: its is_open() moved the breaker from OPEN to
\* HALF_OPEN, and it has recorded no outcome yet
TrialOutstanding(g) == h_adm[g] = "trial" /\ h_pc[g] = "agent" /\ h_rec[g] = <<>>

\* C13: once the timeout has elapsed on an OPEN breaker, is_open() admits one
\* trial call (it returns false and the state becomes HALF_OPEN), and no other
\* caller is admitted until that trial's outcome has been recorded.
C13_OneTrialAtATime ==
  [][ \A h \in Handlers :
        (h_pc[h] \in {"idle", "done"} /\ h_pc'[h] = "agent")
          => /\ (state = "OPEN" => state' = "HALF_OPEN")
             /\ \A g \in Handlers \ {h} : ~TrialOutstanding(g) ]_vars

\* what holds of the trial: the check that finds the timeout elapsed on an OPEN
\* breaker admits its caller and moves the state to HALF_OPEN
C13_TrialAdmitted ==
  [][ (events' = events + 1 /\ state = "OPEN" /\ now - last_failure_time > timeout)
        => /\ ret' = "False"
           /\ state' = "HALF_OPEN"
           /\ \E h \in Handlers :
                /\ h_pc[h] # "agent"
                /\ h_pc' = [h_pc EXCEPT ![h] = "agent"]
                /\ h_adm' = [h_adm EXCEPT ![h] = "trial"] ]_vars

\* C14: while the breaker is OPEN and its timeout has not elapsed, an incoming
\* event does not reach the agent: the handler sends 'agent_down' and returns
\* with no record_success or record_failure call, and the breaker stays as it
\* was; that is what an event meets once failure_threshold failures in a row
\* have been recorded.
C14_OpenRefuses ==
  [][ (events' = events + 1 /\ state = "OPEN" /\ now - last_failure_time <= timeout)
        => /\ ret' = "True"
           /\ \E h \in Handlers :
                /\ h_pc[h] \in {"idle", "done"}
                /\ h_pc' = [h_pc EXCEPT ![h] = "done"]
                /\ h_adm' = [h_adm EXCEPT ![h] = "refused"]
                /\ h_msg' = [h_msg EXCEPT ![h] = "agent_down"]
                /\ h_agent' = [h_agent EXCEPT ![h] = 0]
                /\ h_rec' = [h_rec EXCEPT ![h] = <<>>]
           /\ <<state', failure_count', last_failure_time', streak'>>
                = <<state, failure_count, last_failure_time, streak>> ]_vars

\* C14 witness: failure_threshold failures in a row opened the breaker, and the
\* next event, arriving before the timeout had elapsed, was answered with
\* 'agent_down': no agent call, no record.
C14_Witness ==
  /\ state = "OPEN"
  /\ op = "is_open"
  /\ ret = "True"
  /\ streak = failure_threshold
  /\ failure_threshold >= 2
  /\ now - last_failure_time <= timeout
  /\ \E h \in Handlers :
       /\ h_pc[h] = "done"
       /\ h_adm[h] = "refused"
       /\ h_msg[h] = "agent_down"
       /\ h_agent[h] = 0
       /\ h_rec[h] = <<>>

\* C15: when the remote call for a forwarded line fails with a connection error
\* or a timeout, the bridge calls again (a retry under the retry policy) before
\* it writes the error response for that line.
C15_RetriesBeforeError ==
  (reply.kind \in {"url_error", "timeout"} /\ Len(written) = 1)
    => http_calls >= 2

\* what holds of the remote call: one urlopen per forwarded line, whatever its
\* outcome
C15_OneCallPerLine ==
  /\ http_calls \in {0, 1}
  /\ reply # NoReply => http_calls = 1

\* C16: the process ends with status 0 on SIGINT, SIGTERM, the end of stdin and
\* a broken stdout pipe, and with status 1 only when startup fails: nothing met
\* while the read loop runs ends it with status 1.
C16_ExitOneOnlyAtStartup ==
  /\ b_pc # "exited" => exit_code = -1
  /\ b_pc = "exited"
       => /\ exit_code \in {0, 1}
          /\ exit_reason \in Signals \cup {"eof", "broken_pipe"} => exit_code = 0
          /\ exit_code = 1 => exit_reason = "startup"

\* what holds of the exit status: 0 on SIGINT, SIGTERM, the end of stdin and a
\* broken stdout pipe; 1 when startup fails and when reading stdin raises in
\* the read loop; no other way to end
C16_ExitStatusByCause ==
  /\ b_pc # "exited" => (exit_code = -1 /\ exit_reason = "none")
  /\ b_pc = "exited"
       => /\ exit_reason \in Signals \cup {"eof", "broken_pipe", "startup", "stdin_error"}
          /\ exit_reason \in Signals \cup {"eof", "broken_pipe"} => exit_code = 0
          /\ exit_reason \in {"startup", "stdin_error"} => exit_code = 1
          /\ exit_reason = "startup" => nread = 0

\* C17: a SIGINT or SIGTERM, wherever it arrives (waiting for input, during the
\* remote call, while the body of an HTTP error is read), ends the process with
\* status 0, and no stdin line is read after it.
C17_SignalEndsProcess ==
  sig_at # -1
    => /\ b_pc = "exited"
       /\ exit_code = 0
       /\ exit_reason \in Signals
       /\ nread = sig_at

\* what holds of the signals: one that arrives while the loop waits for input
\* or while urlopen runs ends the process with status 0 at once
C17_SignalOutsideErrorBody ==
  [][ (sig_at' # sig_at /\ b_pc # "error_body")
        => (b_pc' = "exited" /\ exit_code' = 0 /\ nread' = nread) ]_vars

C19_DefaultIdIsOne ==
  http_calls = 1
    => /\ line.id \in {"absent", "null"} => fwd.id = "1"
       /\ line.id \notin {"absent", "null"} => fwd.id = line.id
       /\ fwd.method = line.method

\* C19 witness: a tools/list request with id null was forwarded with id 1, and
\* the server's answer to request 1 was written.
C19_Witness ==
  /\ line.method = "tools/list"
  /\ line.id = "null"
  /\ http_calls = 1
  /\ fwd.id = "1"
  /\ reply.kind = "response"
  /\ Len(written) = 1
  /\ written[1].id = "1"
  /\ written[1].kind = "result"

\* the JSON document of the response body: the body itself, or the data line
\* of an SSE body
ReplyDoc == reply.body[Len(reply.body)].doc

\* C20: when the remote call returns a well-formed envelope, the one line
\* written for the request is that envelope, unchanged but for the id backfill:
\* the same result (or error) member, and the envelope's own id when it has one.
C20_EnvelopePassedThrough ==
  (Answered /\ reply.kind = "response" /\ ReplyDoc.shape = "object")
    => /\ Len(written) = 1
       /\ written[1].kind = ReplyDoc.kind
       /\ written[1].val = ReplyDoc.val
       /\ written[1].code = ReplyDoc.code
       /\ written[1].id = (IF ReplyDoc.id \in {"absent", "null"} THEN fwd.id ELSE ReplyDoc.id)
       /\ out[Len(out)] = nread

\* C20 witness: tools/list with id 7, the server answered {"tools": []} in an
\* envelope with id 7, and the line written has id 7 and that result.
C20_Witness ==
  /\ line.method = "tools/list"
  /\ line.id = "7"
  /\ reply.kind = "response"
  /\ reply.content_type = "application/json"
  /\ ReplyDoc = ResultDoc("7", "tools_empty")
  /\ written = <<[id |-> "7", kind |-> "result", val |-> "tools_empty", code |-> 0,
                  message |-> "server"]>>
  /\ out = <<1>>

\* C21: every backoff sleep lasts min(base_delay * 2^attempt + jitter, max_delay)
\* with jitter between 0 and 1 second and attempt counted from 0, so no sleep is
\* longer than max_delay; a sleep happens only between two attempts, never
\* after the last one.
C21_BackoffDelay ==
  /\ Len(delays) = sleeps
  /\ \A k \in 1..Len(delays) :
       /\ \E j \in 0..TicksPerSecond :
            delays[k] = (IF base_delay * Pow2(k - 1) + j <= max_delay
                           THEN base_delay * Pow2(k - 1) + j ELSE max_delay)
       /\ delays[k] <= max_delay
  /\ sleeps <= max_retries
  /\ c_pc = "sleep" => sleeps = attempts - 1
  /\ c_pc = "attempt" => sleeps = attempts
  /\ c_pc \in {"returned", "raised"} => sleeps = attempts - 1

\* C21 witness: two retries, three attempts that timed out, base_delay of one
\* tick and max_delay of five: the first sleep took the full jitter, the
\* second took none, and no sleep followed the third attempt.
C21_Witness ==
  /\ ~c_stream
  /\ max_retries = 2
  /\ base_delay = 1
  /\ max_delay = 5
  /\ attempts = 3
  /\ c_pc = "raised"
  /\ delays = <<1 + TicksPerSecond, 2>>

\* C22: across the retries of one call, each backoff delay is at least the
\* previous attempt's un-jittered base delay, base_delay * 2^(attempt - 1),
\* for every base_delay > 0 and max_delay > 0.
C22_DelayAtLeastPreviousBase ==
  \A k \in 2..Len(delays) : delays[k] >= base_delay * Pow2(k - 2)

\* C22 as amended: each backoff delay is at least the smaller of the previous
\* attempt's un-jittered base delay and max_delay.
C22_DelayAtLeastCappedPreviousBase ==
  \A k \in 2..Len(delays) :
    /\ base_delay * Pow2(k - 2) <= max_delay => delays[k] >= base_delay * Pow2(k - 2)
    /\ base_delay * Pow2(k - 2) > max_delay => delays[k] = max_delay

\* C22 witness: a second sleep at the cap, which is below the first attempt's
\* base delay.
C22_Witness ==
  /\ base_delay = 2
  /\ max_delay = 1
  /\ Len(delays) = 2
  /\ delays[2] = 1
  /\ c_pc = "raised"

\* the request of the last discover_tools or call_tool, as the transport
\* answered it
LastRequest == make_request_with_retry(session, cat_in.script, cat_in.stream)

\* tools/list failed, or its result holds no usable tools list
DiscoveryFailed ==
  \/ LastRequest.res.kind = "raise"
  \/ ~HasToolsList(LastRequest.res.val)
  \/ LastRequest.res.val = "tools_noname"

\* MCPError and its subclasses
MCPErrors == {"MCPError", "MCPConnectionError", "MCPTimeoutError", "MCPAuthError"}

\* C23: when the tools/list request fails, or its result lacks a tools list,
\* discover_tools raises an MCPError rather than returning normally.
C23_DiscoveryFailureRaises ==
  (cat_op = "discover_tools" /\ DiscoveryFailed)
    => (cat_result.kind = "raise" /\ cat_result.exc \in MCPErrors)

\* what the code does instead: every failure of discovery returns normally,
\* with an empty map of tools
C23_DiscoveryFailureReturnsEmpty ==
  (cat_op = "discover_tools" /\ DiscoveryFailed)
    => (cat_result.kind = "return" /\ available_tools = {})

\* C24: call_tool with a name that is not in the catalog raises an error that
\* names the tool and lists the known names, and sends no request.
C24_UnknownToolRefused ==
  (cat_op = "call_tool" /\ cat_in.name \notin available_tools)
    => /\ cat_result = Raise("MCPError")
       /\ cat_msg = [tool |-> cat_in.name, available |-> available_tools]
       /\ cat_posts = 0
       /\ cat_sent = NoArguments

\* an unknown name refused while the session is open and the catalog is filled
C24_Witness ==
  /\ cat_op = "call_tool"
  /\ cat_in.name = "nonexistent_tool"
  /\ session = "open"
  /\ available_tools = ServerTools
  /\ cat_result = Raise("MCPError")
  /\ cat_msg.available = ServerTools

\* the responses that carry a result
SuccessOutcomes == {"ok", "ok_tools", "ok_tools_noname", "ok_not_dict"}

\* the last call_tool went to a discovered tool, without streaming, and failed:
\* no request could be sent, or the last POST did not bring a result
CallFailed ==
  /\ cat_op = "call_tool"
  /\ cat_in.name \in available_tools
  /\ ~cat_in.stream
  /\ (cat_posts = 0 \/ cat_in.script[cat_posts] \notin SuccessOutcomes)

\* C25: every failure of call_tool on a discovered tool (transport failure,
\* timeout after the retries, JSON-RPC error member, malformed or non-object
\* envelope, error member that is no object) reaches the caller as MCPError or
\* one of its subclasses, never as another type and never as a normal return.
C25_CallFailureIsMCPError ==
  CallFailed => (cat_result.kind = "raise" /\ cat_result.exc \in MCPErrors)

\* what holds of the code: a failed call never returns normally, and it raises
\* an MCPError unless the envelope is no object or its error member is none
C25_CallFailureRaises ==
  CallFailed =>
    /\ cat_result.kind = "raise"
    /\ (cat_result.exc \notin MCPErrors
          => cat_in.script[cat_posts] \in {"array_json", "rpc_error_string"})

\* C26: call_tool validates the arguments against the parameter model compiled
\* from the tool's inputSchema before tools/call is sent: a call that omits a
\* required field is rejected without a request, and an omitted optional
\* integer field takes its default 0.
C26_ArgumentsValidated ==
  (cat_op = "call_tool" /\ cat_in.name \in available_tools /\ ~cat_in.stream)
    => /\ (cat_in.args.project_name = "absent"
            => (cat_posts = 0 /\ cat_result.kind = "raise"))
       /\ ((cat_posts > 0 /\ cat_in.args.limit = "absent") => cat_sent.limit = "0")

\* what the code does: the arguments of every request sent are the caller's
C26_ArgumentsSentAsGiven ==
  (cat_op = "call_tool" /\ cat_posts > 0) => cat_sent = cat_in.args

\* the number of calls of method f so far
CallCount(f) == Cardinality({i \in DOMAIN calls : calls[i] = f})

\* C27: entering the async context manager creates the session and then runs
\* discovery, exactly once each; leaving it calls close() exactly once; after
\* close() the session is None.
C27_ContextManager ==
  /\ cat_pc = "new" =>
       (CallCount("_create_session") = 0 /\ CallCount("close") = 0)
  /\ cat_pc \in {"entered", "exited"} =>
       /\ CallCount("_create_session") = 1
       /\ \A i \in DOMAIN calls :
            calls[i] = "_create_session"
              => (i < Len(calls) /\ calls[i + 1] = "discover_tools")
  /\ cat_op = "__aenter__" =>
       /\ session = "open"
       /\ cat_result = Return("self")
       /\ Len(calls) >= 2
       /\ calls[Len(calls) - 1] = "_create_session"
       /\ calls[Len(calls)] = "discover_tools"
  /\ cat_pc = "entered" => (session = "open" /\ CallCount("close") = 0)
  /\ cat_pc = "exited" => (session = "None" /\ CallCount("close") = 1)

\* the context manager entered and left again
C27_Witness ==
  /\ cat_pc = "exited"
  /\ cat_op = "__aexit__"
  /\ calls = <<"_create_session", "discover_tools", "close">>
  /\ session = "None"

\* C28: reading an SSE body in 8 KiB chunks, the accumulated text never
\* exceeds 1 MiB (1,048,576 bytes); reading stops at the first chunk that
\* would pass the cap, and the text read so far is still parsed.
C28_ReadCapped ==
  /\ response_text <= max_size
  /\ response_text <= bytes_read
  /\ (r_pc = "reading" => (~r_truncated /\ bytes_read <= max_size))
  /\ r_truncated =>
       /\ r_pc \in {"parsing", "returned"}
       /\ bytes_read > max_size
       /\ bytes_read - response_text <= ChunkSize
       /\ (r_pc = "returned" => (r_result = "parsed" /\ r_parsed = response_text))

\* a body of 2 MiB: 128 chunks kept, the 129th dropped, 1 MiB of text parsed
C28_Witness ==
  /\ r_pc = "returned"
  /\ r_truncated
  /\ r_left > 0
  /\ r_parsed = max_size
  /\ bytes_read = max_size + ChunkSize

\* the fields of the circuit breaker
BreakerFields == <<failure_threshold, timeout, failure_count, last_failure_time, state>>

\* C29: the circuit state changes only through is_open, record_success and
\* record_failure, and each touches only its own fields: is_open never changes
\* failure_count or last_failure_time and changes state only from OPEN to
\* HALF_OPEN; record_success never changes last_failure_time; the event handler
\* and the /ready and /metrics endpoints only read the state.
C29_BreakerFrame ==
  [][/\ BreakerFields' # BreakerFields
          => (is_open \/ record_success \/ record_failure)
     /\ UNCHANGED <<failure_threshold, timeout>>
     /\ is_open
          => /\ UNCHANGED <<failure_count, last_failure_time>>
             /\ (state' # state => (state = "OPEN" /\ state' = "HALF_OPEN"))
     /\ record_success => UNCHANGED last_failure_time
     /\ (Ready \/ Metrics) => UNCHANGED BreakerFields
     /\ \A h \in Handlers :
          (h_pc'[h] # h_pc[h] /\ BreakerFields' # BreakerFields)
            => \/ (h_pc[h] \in {"idle", "done"} /\ is_open)
               \/ (h_pc[h] = "agent" /\ (record_success \/ record_failure))
               \/ (h_pc[h] = "reply" /\ record_failure)]_vars

\* is_open has moved the breaker from OPEN to HALF_OPEN with the failure count
\* and the failure time as they were, and /metrics has reported it
C29_Witness ==
  /\ served.endpoint = "/metrics"
  /\ served.state = "HALF_OPEN"
  /\ state = "HALF_OPEN"
  /\ op = "is_open"
  /\ prev = "OPEN"
  /\ failure_count = served.failure_count
  /\ failure_count >= failure_threshold
  /\ last_failure_time = served.last_failure
  /\ last_failure_time # NoTime

\* C30: with failure_threshold >= 1, after any sequence of is_open,
\* record_success and record_failure calls: a CLOSED breaker has
\* failure_count < failure_threshold; an OPEN or HALF_OPEN breaker has
\* failure_count >= failure_threshold and last_failure_time set, so is_open
\* never compares against an unset time.
C30_StateMatchesCount ==
  /\ failure_threshold >= 1
  /\ state \in {"CLOSED", "OPEN", "HALF_OPEN"}
  /\ state = "CLOSED" => failure_count < failure_threshold
  /\ state \in {"OPEN", "HALF_OPEN"} =>
       (failure_count >= failure_threshold /\ last_failure_time # NoTime)
  /\ ret # "TypeError"

\* a failure recorded on the trial call: the breaker is OPEN again with more
\* failures counted than the threshold
C30_Witness ==
  /\ op = "record_failure"
  /\ prev = "HALF_OPEN"
  /\ state = "OPEN"
  /\ failure_count > failure_threshold
  /\ last_failure_time = now

\* C31: with several event handlers running concurrently on the shared
\* breaker, the breaker leaves OPEN only through the timeout: no interleaving
\* of handlers takes the state from OPEN directly to CLOSED before the timeout
\* has elapsed.
C31_OpenLeftOnlyByTimeout ==
  [][(state = "OPEN" /\ now - last_failure_time <= timeout) => state' # "CLOSED"]_vars

\* what holds of the code: an OPEN breaker is closed only by the
\* record_success of a handler whose call was admitted earlier and was still
\* with the agent
C31_ClosedByCallInFlight ==
  [][(state = "OPEN" /\ state' = "CLOSED")
       => \E h \in Handlers :
            /\ h_pc[h] = "agent"
            /\ h_pc'[h] = "reply"
            /\ h_adm[h] \in {"admitted", "trial"}]_vars

\* C32: with event handlers running concurrently on the shared breaker, no
\* failure is lost: after k record_failure calls have completed with no
\* record_success in between, failure_count equals k, so the breaker is OPEN as
\* soon as failure_threshold failures have been recorded.
C32_NoFailureLost ==
  (\A h \in Handlers : t_pc[h] = "idle")
    => /\ failure_count = streak
       /\ (streak >= failure_threshold => state = "OPEN")

\* what holds of the code: the count never exceeds the calls begun, and at
\* least one failure is counted once one call has completed
C32_CountWithinCalls ==
  /\ failure_count <= streak + InProgress
  /\ (streak >= 1 => failure_count >= 1)

\* C33: a record_failure() while HALF_OPEN (a failed trial call) moves the
\* breaker straight back to OPEN and restarts the timeout from that failure,
\* for every threshold >= 1; only record_success() takes the breaker from
\* HALF_OPEN to CLOSED.
C33_FailedTrialReopens ==
  [][/\ (op' = "record_failure" /\ state = "HALF_OPEN")
          => (state' = "OPEN" /\ last_failure_time' = now)
     /\ (state = "HALF_OPEN" /\ state' = "CLOSED") => op' = "record_success"
     /\ (state = "HALF_OPEN" /\ op' = "is_open") => state' = "HALF_OPEN"]_vars

\* a trial failed some time after the breaker opened: OPEN again, the timeout
\* counted from the failed trial
C33_Witness ==
  /\ op = "record_failure"
  /\ prev = "HALF_OPEN"
  /\ state = "OPEN"
  /\ now > 0
  /\ last_failure_time = now
  /\ failure_threshold = MaxThreshold

\* C34: the request ids issued by one EnhancedMCPClient are 1, 2, 3, ...,
\* strictly increasing: no two requests it sends carry the same id, including
\* the separate attempts of one retried call and calls issued concurrently on
\* the same event loop.
C34_IdsIncrease ==
  /\ request_id = Len(ids)
  /\ \A i \in DOMAIN ids : ids[i].id = i
  /\ \A i, j \in DOMAIN ids : i < j => ids[i].id < ids[j].id

\* two calls interleaved on the loop, each retried, one id per attempt
C34_Witness ==
  /\ Len(ids) >= 4
  /\ ids[1].task = "a"
  /\ ids[2].task = "b"
  /\ ids[3].task = "a"
  /\ ids[4].task = "b"
  /\ k_attempt = [t \in Tasks |-> 1]

\* C35: a request made while no session is open (before the context manager
\* is entered, or after close()) sends nothing to the server and fails with
\* MCPConnectionError after exactly one attempt: it is not retried and no
\* backoff sleep happens.
C35_NoSessionFailsAtOnce ==
  session = "None" =>
    /\ request_id = 0
    /\ sleeps = 0
    /\ attempts <= 1
    /\ c_pc \notin {"sleep", "stream_done"}
    /\ (c_pc = "returned" => c_stream)
    /\ (c_pc \in {"raised", "stream_raised"} =>
          (attempts = 1 /\ c_result = Raise("MCPConnectionError")))
    /\ \A i \in DOMAIN attempt_exc : attempt_exc[i] = "MCPConnectionError"

\* a call on a client without a session, configured with retries, has failed
C35_Witness ==
  /\ session = "None"
  /\ max_retries = MaxRetries
  /\ ~c_stream
  /\ c_pc = "raised"
  /\ attempts = 1
  /\ c_result = Raise("MCPConnectionError")

\* C36: a streaming call (stream=True) gets the same retry treatment as a
\* non-streaming call: a retryable failure of the streaming request is retried
\* up to max_retries times with backoff before an error reaches the caller.
C36_StreamRetried ==
  (/\ c_stream
   /\ session = "open"
   /\ c_pc = "stream_raised"
   /\ script[1] \in {"timeout", "client_error"})
    => (attempts = max_retries + 1 /\ sleeps = max_retries)

\* what the code does: a streaming call makes one request and never sleeps
C36_StreamNeverRetried ==
  c_stream => (attempts <= 1 /\ sleeps = 0 /\ request_id <= 1)

\* C37: a stdin line that is valid JSON but not a JSON object (an array, a
\* string, a number, null) is answered with exactly one Invalid Request error,
\* code -32600 and id null, and no remote call is made.
C37_NonObjectInvalidRequest ==
  (nread > 0 /\ line.shape = "nonobject" /\ exit_reason # "broken_pipe")
    => /\ http_calls = 0
       /\ written = <<BridgeError(-32600, "Invalid Request", "null")>>

\* what the code answers: one Internal error, code -32603 and id null, and no
\* remote call
C37_NonObjectInternalError ==
  (nread > 0 /\ line.shape = "nonobject" /\ exit_reason # "broken_pipe")
    => /\ http_calls = 0
       /\ reply = NoReply
       /\ written = <<BridgeError(-32603, "Internal error", "null")>>

\* the tools/list request of the last health_check, which always has a session
ProbeRequest == make_request_with_retry("open", cat_in.script, FALSE)

\* C38: health_check returns true only if the MCP server answered the
\* tools/list probe successfully; when the server is unreachable, times out or
\* answers with an error, health_check returns false.
C38_HealthCheckReportsFailure ==
  (cat_op = "health_check" /\ ProbeRequest.res.kind = "raise")
    => cat_result = Return("False")

\* what the code does: health_check returns True whatever the probe met
C38_HealthCheckAlwaysTrue ==
  cat_op = "health_check" => cat_result = Return("True")

\* C39: a discovery that fails does not change the catalog: tools learned from
\* an earlier successful discover_tools stay in available_tools and remain
\* callable until a later discovery succeeds.
C39_FailedDiscoveryKeepsCatalog ==
  [][(/\ calls' # calls
      /\ \/ (cat_op' = "discover_tools" /\ DiscoveryFailed')
         \/ (cat_op' = "health_check" /\ ProbeRequest'.res.kind = "raise"))
       => available_tools' = available_tools]_vars

\* what the code does: after a failed discovery the catalog is empty
C39_FailedDiscoveryEmptiesCatalog ==
  [][(/\ calls' # calls
      /\ \/ (cat_op' = "discover_tools" /\ DiscoveryFailed')
         \/ (cat_op' = "health_check" /\ ProbeRequest'.res.kind = "raise"))
       => available_tools' = {}]_vars

\* C40: after process_slack_events has finished handling any event, on the
\* success path and on the failure path alike, CONVERSATION_CACHE holds at
\* most MAX_CONVERSATIONS (100) entries, cleanup evicting the conversations
\* with the smallest timestamps first.
C40_CacheBounded ==
  [][/\ Cardinality(CONVERSATION_CACHE') <= MAX_CONVERSATIONS
     /\ \A gone \in CONVERSATION_CACHE \ CONVERSATION_CACHE' :
          \A kept \in CONVERSATION_CACHE' : gone < kept]_vars

\* what holds of the code: the cache is at or below the limit after an event
\* that took the success path with a history, and what is evicted is older
\* than what is kept; the failure path adds an entry and evicts nothing
C40_BoundedOnSuccessPath ==
  [][/\ conv_path' = "success_history"
          => Cardinality(CONVERSATION_CACHE') <= MAX_CONVERSATIONS
     /\ conv_path' # "success_history" => CONVERSATION_CACHE \subseteq CONVERSATION_CACHE'
     /\ \A gone \in CONVERSATION_CACHE \ CONVERSATION_CACHE' :
          \A kept \in CONVERSATION_CACHE' : gone < kept]_vars

====
